---- MODULE Spec2Model ----
(***************************************************************************)
(* A model of suseapi/bugzilla.py: the Bugzilla client (session handling,  *)
(* 502 recovery, login flows, get_bugs and its parse-error handling).      *)
(*                                                                         *)
(* The synchronous Python call structure is modelled by an explicit call   *)
(* stack: every method is a frame [fn, pc, arg, loc]; a call pushes a      *)
(* frame, a return pops it and leaves the value in ret, a raised exception *)
(* leaves ret.kind = "raise" and unwinds frame by frame (Propagate).       *)
(* The server and the transport are the environment: each transport call   *)
(* nondeterministically succeeds with a page or fails with an error.       *)
(***************************************************************************)
EXTENDS Integers, Sequences, FiniteSets, TLC

\* ------------------------------------------------------------------ bounds
\* top-level calls made on one client instance in one behaviour
MaxCalls == 2
\* <bug> elements in one show_bug response
MaxBugs == 2
\* text units in the body of an unparsable response
MaxText == 2
\* javascript redirect lines in the page that answers the login form
MaxRedirects == 1

\* ------------------------------------------------------- program constants
BadGateway == 502
\* A text is a sequence of units: a unit below 32 is that control
\* character, a unit in 32..255 that character, and the two markers stand
\* for the whole marker texts 'Buglist Too Large' and 'Bugzilla has
\* suffered an internal error.'
TooLargeMarker == 1000
InternalErrorMarker == 1001

\* ------------------------------------------------------------ small helpers
Last(s) == s[Len(s)]
Front(s) == SubSeq(s, 1, Len(s) - 1)

\* str.find(marker): index of the first occurrence, -1 when there is none
Find(data, marker) ==
    IF \E i \in 1..Len(data) : data[i] = marker
    THEN (CHOOSE i \in 1..Len(data) :
            data[i] = marker /\ \A j \in 1..(i - 1) : data[j] # marker) - 1
    ELSE -1

\* Python truthiness of an int
Truthy(n) == n # 0

\* escape_xml_text: control characters 0..31 other than 9, 10, 13 become
\* backslash, 'x' and the two decimal digits of '%02d'.
\* (mutant) the code written as two hexadecimal digits
ReplacementHex(orig) ==
    LET HexDigit(n) == IF n < 10 THEN 48 + n ELSE 87 + n
    IN <<92, 120, HexDigit(orig \div 16), HexDigit(orig % 16)>>
\* replacement_map[chr(orig)]: '\\x%02d' % orig
Replacement(orig) == <<92, 120, 48 + (orig \div 10), 48 + (orig % 10)>>
RECURSIVE escape_xml_text(_)
escape_xml_text(data) ==
    IF data = <<>> THEN <<>>
    ELSE LET c == Head(data) IN
         (IF c < 32 /\ c \notin {9, 10, 13}
          THEN Replacement(c)
          ELSE <<c>>) \o escape_xml_text(Tail(data))

\* ------------------------------------------------------------ error classes
\* the class hierarchy of lines 52-98; WebScraperError is the transport's
Parent(c) ==
    CASE c = "BugzillaError" -> "WebScraperError"
      [] c = "BugzillaNotPermitted" -> "BugzillaError"
      [] c = "BugzillaNotFound" -> "BugzillaError"
      [] c = "BugzillaInvalidBugId" -> "BugzillaError"
      [] c = "BugzillaConnectionError" -> "BugzillaError"
      [] c = "BugzillaLoginFailed" -> "BugzillaConnectionError"
      [] c = "BuglistTooLarge" -> "BugzillaError"
      [] c = "BugzillaUpdateError" -> "BugzillaConnectionError"
      [] OTHER -> "Exception"

RECURSIVE IsA(_, _)
IsA(c, base) ==
    IF c = base THEN TRUE
    ELSE IF c = "Exception" THEN FALSE
    ELSE IsA(Parent(c), base)

\* an exception object: its class, the message, the bug id ("None" for
\* null) and the status code of error.original (0: no original / no code)
Err(cls, msg, bug_id) == [cls |-> cls, msg |-> msg, bug_id |-> bug_id, code |-> 0]
TransportErr(code) ==
    [cls |-> "WebScraperError", msg |-> "transport", bug_id |-> "None", code |-> code]

\* ------------------------------------------------------------- XML elements
\* An element: its tag, its text ("None" for no text), its attributes (a set
\* of <<name, value>>) and its children in document order.  A <bug> element
\* is [error, children], error being the error attribute or "None".
Elem(tag, text, attrs, kids) ==
    [tag |-> tag, text |-> text, attrs |-> attrs, kids |-> kids]
Leaf(tag, text) == Elem(tag, text, {}, <<>>)

\* element.find(tag): the first child with that tag; HasChild when there is one
HasChild(kids, tag) == \E i \in 1..Len(kids) : kids[i].tag = tag
FindChild(kids, tag) ==
    kids[CHOOSE i \in 1..Len(kids) :
            kids[i].tag = tag /\ \A j \in 1..(i - 1) : kids[j].tag # tag]
\* element.get(name, default)
GetAttr(attrs, name, default) ==
    IF \E p \in attrs : p[1] = name
    THEN (CHOOSE p \in attrs : p[1] = name)[2]
    ELSE default

\* dateutil.parser.parse: the texts it accepts, and the timestamp it gives
ValidDates == {"2014-01-01 10:00", "2015-06-30 12:30"}
ParseDate(text) == <<"ts", text>>

\* the outcome of a computation that may raise
Ok(v) == [kind |-> "ok", v |-> v, exc |-> Err("None", "", "None")]
Raise(e) == [kind |-> "raise", v |-> <<>>, exc |-> e]

\* ------------------------------------------------------------------ class Bug
FlagAttributes == <<"name", "id", "type_id", "status", "setter", "requestee">>

\* The attribute name of the object holds a text that setattr (line 174)
\* stored under that name: the value the constructor gave it is gone, and so
\* is its append method.
Holds(self, name) == \E p \in self.extra : p[1] = name
NoAppend == Err("AttributeError", "object has no attribute append", "None")
\* the truth value of self.anonymous (lines 200, 210): of the constructor's
\* argument, or of the text stored over it (None and '' are false)
IsAnonymous(self) ==
    IF Holds(self, "anonymous")
    THEN \E p \in self.extra : p[1] = "anonymous" /\ p[2] \notin {"None", ""}
    ELSE self.anonymous

\* Bug.process_flag: only the attributes that are present and non-empty
process_flag(self, element) ==
    LET flag == {p \in element.attrs :
                    /\ \E i \in 1..Len(FlagAttributes) : FlagAttributes[i] = p[1]
                    /\ p[2] # ""}
    IN IF Holds(self, "flags") THEN Raise(NoAppend)
       ELSE Ok([self EXCEPT !.flags = Append(@, flag)])

\* Bug.process_comment
process_comment(self, element) ==
    LET hasWho == HasChild(element.kids, "who")
        hasWhen == HasChild(element.kids, "bug_when")
    IN
    IF ~hasWho /\ ~IsAnonymous(self)
    THEN Raise(Err("BugzillaNotPermitted", "Could not load author from bugzilla",
                   self.bug_id))
    ELSE IF ~hasWhen /\ ~IsAnonymous(self)
    THEN Raise(Err("BugzillaNotPermitted",
                   "Could not load time of change from bugzilla", self.bug_id))
    ELSE IF hasWhen /\ FindChild(element.kids, "bug_when").text \notin ValidDates
    THEN Raise(Err("ValueError", "Unknown string format", "None"))
    ELSE IF Holds(self, "comments") THEN Raise(NoAppend)
    ELSE IF ~HasChild(element.kids, "thetext")
    THEN Raise(Err("AttributeError", "NoneType has no attribute text", "None"))
    ELSE Ok([self EXCEPT !.comments = Append(@,
            [who |-> IF hasWho THEN FindChild(element.kids, "who").text ELSE "",
             bug_when |-> IF hasWhen
                          THEN ParseDate(FindChild(element.kids, "bug_when").text)
                          ELSE <<"None">>,
             private |-> GetAttr(element.attrs, "isprivate", "None") = "1",
             thetext |-> FindChild(element.kids, "thetext").text])])

AttachmentFields ==
    <<"attachid", "desc", "date", "filename", "type", "size", "attacher">>

\* Bug.process_attachment
process_attachment(self, element) ==
    IF Holds(self, "attachments") THEN Raise(NoAppend)
    ELSE IF \E i \in 1..3 : ~HasChild(element.kids, AttachmentFields[i])
    THEN Raise(Err("AttributeError", "NoneType has no attribute text", "None"))
    ELSE IF FindChild(element.kids, "date").text \notin ValidDates
    THEN Raise(Err("ValueError", "Unknown string format", "None"))
    ELSE IF \E i \in 4..Len(AttachmentFields) :
            ~HasChild(element.kids, AttachmentFields[i])
    THEN Raise(Err("AttributeError", "NoneType has no attribute text", "None"))
    ELSE Ok([self EXCEPT !.attachments = Append(@,
            [attachid |-> FindChild(element.kids, "attachid").text,
             desc |-> FindChild(element.kids, "desc").text,
             date |-> ParseDate(FindChild(element.kids, "date").text),
             filename |-> FindChild(element.kids, "filename").text,
             type |-> FindChild(element.kids, "type").text,
             size |-> FindChild(element.kids, "size").text,
             attacher |-> FindChild(element.kids, "attacher").text,
             ispatch |-> GetAttr(element.attrs, "ispatch", "0") = "1",
             isobsolete |-> GetAttr(element.attrs, "isobsolete", "0") = "1"])])

\* setattr(self, tag, text): the attribute of that name now holds the text,
\* whatever it held before.  bug_id is a text (or None) from the start; the
\* other texts are kept in extra, latest value wins (see Holds).
SetAttr(self, tag, text) ==
    IF tag = "bug_id"
    THEN [self EXCEPT !.bug_id = text]
    ELSE [self EXCEPT !.extra = {p \in @ : p[1] # tag} \cup {<<tag, text>>}]

\* Bug.process_element
process_element(self, element) ==
    IF element.tag = "cc"
    THEN IF Holds(self, "cc_list") THEN Raise(NoAppend)
         ELSE Ok([self EXCEPT !.cc_list = Append(@, element.text)])
    ELSE IF element.tag = "alias"
    THEN IF Holds(self, "aliases") THEN Raise(NoAppend)
         ELSE Ok([self EXCEPT !.aliases = Append(@, element.text)])
    ELSE IF element.tag = "group"
    THEN IF Holds(self, "groups") THEN Raise(NoAppend)
         ELSE Ok([self EXCEPT !.groups = Append(@, element.text)])
    ELSE IF element.tag = "creation_ts"
    THEN IF element.text \in ValidDates
         THEN Ok([self EXCEPT !.creation_ts = ParseDate(element.text)])
         ELSE Raise(Err("ValueError", "Unknown string format", "None"))
    ELSE IF element.tag = "delta_ts"
    THEN IF element.text \in ValidDates
         THEN Ok([self EXCEPT !.delta_ts = ParseDate(element.text)])
         ELSE Raise(Err("ValueError", "Unknown string format", "None"))
    ELSE IF element.tag = "flag"
    THEN process_flag(self, element)
    ELSE IF element.kids = <<>>
    THEN Ok(SetAttr(self, element.tag, element.text))
    ELSE IF element.tag = "long_desc"
    THEN process_comment(self, element)
    ELSE IF element.tag = "attachment"
    THEN process_attachment(self, element)
    ELSE Ok(self)

\* the for loop of Bug.__init__ (line 144): stops at the first exception
RECURSIVE ProcessChildren(_, _)
ProcessChildren(self, children) ==
    IF children = <<>> THEN Ok(self)
    ELSE LET r == process_element(self, Head(children)) IN
         IF r.kind = "raise" THEN r
         ELSE ProcessChildren(r.v, Tail(children))

\* the object after lines 135-143
NewBug(anonymous) ==
    [bug_id |-> "None", cc_list |-> <<>>, groups |-> <<>>, comments |-> <<>>,
     attachments |-> <<>>, aliases |-> <<>>, delta_ts |-> <<"None">>,
     creation_ts |-> <<"None">>, anonymous |-> anonymous, flags |-> <<>>,
     extra |-> {}]

\* (mutant) the error attribute is not looked at
BugIgnoringError(bug_et, anonymous) ==
    ProcessChildren(NewBug(anonymous), bug_et.children)
\* Bug.__init__(bug_et, anonymous): a record, or the exception it raises
Bug(bug_et, anonymous) ==
    IF bug_et.error # "None"
    THEN LET bug_id == IF HasChild(bug_et.children, "bug_id")
                       THEN FindChild(bug_et.children, "bug_id").text
                       ELSE "None"
         IN IF bug_et.error = "NotPermitted"
            THEN Raise(Err("BugzillaNotPermitted", bug_et.error, bug_id))
            ELSE IF bug_et.error = "NotFound"
            THEN Raise(Err("BugzillaNotFound", bug_et.error, bug_id))
            ELSE IF bug_et.error = "InvalidBugId"
            THEN Raise(Err("BugzillaInvalidBugId", bug_et.error, bug_id))
            ELSE Raise(Err("BugzillaError", bug_et.error, "None"))
    ELSE ProcessChildren(NewBug(anonymous), bug_et.children)

\* ------------------------------------------------- get_bugs: the parse loop
\* an entry of the bugs list: a Bug record or (store_errors) an exception
BugEntry(rec) == [isError |-> FALSE, bug |-> rec, exc |-> Err("None", "", "None")]
ErrEntry(e) == [isError |-> TRUE, bug |-> NewBug(FALSE), exc |-> e]

\* (mutant) store_errors is never honoured
StoresNever(store_errors) == FALSE
\* lines 466-467: whether the exception is appended to the list
Stores(store_errors) == store_errors

\* (mutant) the "else: raise exc" is lost: every per-bug error is skipped
SkipsAlways(permissive) == TRUE
\* (mutant) permissive is never honoured
SkipsNever(permissive) == FALSE
\* lines 468-471: whether the loop logs the exception and goes on
Skips(permissive) == permissive

\* Lines 461-472, the loop over response_et.findall('bug'): the list built so
\* far, the exceptions logged, and the exception that left the loop (if any).
RECURSIVE BugsLoop(_, _, _, _, _, _)
BugsLoop(elems, anonymous, permissive, store_errors, bugs, logged) ==
    IF elems = <<>>
    THEN [bugs |-> bugs, logged |-> logged, raised |-> FALSE,
          exc |-> Err("None", "", "None")]
    ELSE LET r == Bug(Head(elems), anonymous) IN
         IF r.kind = "ok"
         THEN BugsLoop(Tail(elems), anonymous, permissive, store_errors,
                       Append(bugs, BugEntry(r.v)), logged)
         ELSE IF ~IsA(r.exc.cls, "BugzillaError")
         THEN [bugs |-> bugs, logged |-> logged, raised |-> TRUE, exc |-> r.exc]
         ELSE LET stored == IF Stores(store_errors)
                            THEN Append(bugs, ErrEntry(r.exc))
                            ELSE bugs
              IN IF Skips(permissive)
                 THEN BugsLoop(Tail(elems), anonymous, permissive, store_errors,
                               stored, Append(logged, r.exc))
                 ELSE [bugs |-> stored, logged |-> logged, raised |-> TRUE,
                       exc |-> r.exc]

\* Bugzilla._handle_parse_error(bugid, data): the exception it raises, or a
\* normal return after log_parse_error.  The second test is the truth value
\* of data.find(...), as line 397 writes it.
handle_parse_error(data) ==
    IF Find(data, TooLargeMarker) # -1
    THEN Raise(Err("BuglistTooLarge", "Buglist too large", "None"))
    ELSE IF Truthy(Find(data, InternalErrorMarker))
    THEN Raise(Err("BugzillaError", "Bugzilla has suffered an internal error.",
                   "None"))
    ELSE IF data = <<>>
    THEN Raise(Err("BugzillaError", "Received empty response from Bugzilla.",
                   "None"))
    ELSE Ok("logged")

\* ------------------------------------------------------------- environment
\* What the code reads of the browser's current document: viewing_html(),
\* the 'Log out' link (absent, the plain text, or the second text that
\* _check_login selects), whether form 0 exists, whether it has the
\* credential inputs, an error paragraph, and the redirect script lines.
Page(html, logout, form, inputs, errpara, redirects) ==
    [html |-> html, logout |-> logout, form |-> form, inputs |-> inputs,
     errpara |-> errpara, redirects |-> redirects]
NonHtmlPage == Page(FALSE, "none", FALSE, FALSE, FALSE, 0)
BlankPage == Page(TRUE, "none", FALSE, FALSE, FALSE, 0)
HtmlPages ==
    { BlankPage,
      Page(TRUE, "plain", FALSE, FALSE, FALSE, 0),
      Page(TRUE, "second", FALSE, FALSE, FALSE, 0),
      Page(TRUE, "none", TRUE, FALSE, FALSE, 0),
      Page(TRUE, "none", TRUE, TRUE, FALSE, 0),
      Page(TRUE, "none", FALSE, FALSE, TRUE, 0) }
    \cup { Page(TRUE, "none", FALSE, FALSE, FALSE, n) : n \in 1..MaxRedirects }
Pages == HtmlPages \cup {NonHtmlPage}

\* <bug> elements of a show_bug response
BugElem(error, children) == [error |-> error, children |-> children]
CommentKids(who, when, text) ==
    (IF who THEN <<Leaf("who", "alice")>> ELSE <<>>)
    \o (IF when THEN <<Leaf("bug_when", "2014-01-01 10:00")>> ELSE <<>>)
    \o (IF text THEN <<Leaf("thetext", "hello")>> ELSE <<>>)
BugElems ==
    { BugElem("None", <<Leaf("bug_id", "1"), Leaf("short_desc", "crash")>>),
      BugElem("None", <<Leaf("bug_id", "2"),
                        Elem("long_desc", "None", {<<"isprivate", "0">>},
                             CommentKids(TRUE, TRUE, TRUE))>>),
      BugElem("NotPermitted", <<Leaf("bug_id", "3")>>),
      BugElem("NotFound", <<Leaf("bug_id", "4")>>),
      BugElem("None", <<Leaf("bug_id", "5"),
                        Elem("long_desc", "None", {}, CommentKids(FALSE, TRUE, TRUE))>>),
      BugElem("None", <<Leaf("bug_id", "6"),
                        Elem("long_desc", "None", {}, CommentKids(TRUE, TRUE, FALSE))>>) }

RECURSIVE SeqsUpTo(_, _)
SeqsUpTo(S, n) ==
    IF n = 0 THEN {<<>>}
    ELSE LET shorter == SeqsUpTo(S, n - 1)
         IN shorter \cup {Append(q, x) : q \in shorter, x \in S}

\* The body of a response to an XML request: either the parser gives up on
\* it (SyntaxError; then its text decides) or it holds <bug> elements.
TextUnits == {TooLargeMarker, InternalErrorMarker, 65}
XmlBody(fatal, text, bugs) == [fatal |-> fatal, text |-> text, bugs |-> bugs]
NoBody == XmlBody(FALSE, <<>>, <<>>)
\* the server answers each bug asked for with one <bug> element: none twice
NoRepeat(q) == \A i \in 1..Len(q), j \in 1..Len(q) : i # j => q[i] # q[j]
XmlBodies(nids) ==
    { XmlBody(TRUE, t, <<>>) : t \in SeqsUpTo(TextUnits, MaxText) }
    \cup { XmlBody(FALSE, <<>>, b) : b \in {q \in SeqsUpTo(BugElems, nids) : NoRepeat(q)} }

\* An <entry> of an Atom feed: whether it has an <id> child, and its text.
\* The texts: a URL ending in '?id=' and digits; the same with a letter
\* after the digits, or with nothing after '?id='; texts without '?id='.
QId == <<63, 105, 100, 61>>
Entry(has, text) == [has |-> has, text |-> text]
IdTexts ==
    { <<117>> \o QId \o <<49>>, <<117>> \o QId \o <<50>>, QId \o <<49, 50>>,
      <<117>> \o QId \o <<49, 120>>, <<117>> \o QId,
      <<117, 117, 117, 50>>, <<49, 50>> }
Entries == { Entry(TRUE, t) : t \in IdTexts } \cup { Entry(FALSE, <<>>) }
\* bodies the server may answer buglist with: a text the parser gives up
\* on, or a feed of up to nids entries, in any order, repeated or not
FeedBodies(nids) ==
    { XmlBody(TRUE, t, <<>>) : t \in SeqsUpTo(TextUnits, MaxText) }
    \cup { XmlBody(FALSE, <<>>, b) : b \in SeqsUpTo(Entries, nids) }

\* The page show_bug answers with when no XML is asked for, as
\* load_update_form and update_bug read it: whether it is HTML, whether it
\* holds 'You are not authorized to access bug', whether it has the form
\* 'changeform', the inputs of that form and the text of status_whiteboard.
FormBody(html, authorized, changeform, fields, whiteboard) ==
    [html |-> html, authorized |-> authorized, changeform |-> changeform,
     fields |-> fields, whiteboard |-> whiteboard]
KwargNames == {"addselfcc", "resolution"}
FormBodies ==
    { FormBody(h, a, FALSE, {}, <<>>) : h, a \in BOOLEAN }
    \cup { FormBody(TRUE, TRUE, TRUE, f \cup {"status_whiteboard"}, w) :
              f \in SUBSET KwargNames, w \in {<<>>, <<97>>, <<97, 32, 98>>} }
    \cup { FormBody(TRUE, TRUE, TRUE, KwargNames, <<>>) }
\* the texts update_bug looks for in the answer to the submitted form
SubmitMarkers == {"Mid-air collision!", "reason=invalid_token", "Changes submitted for"}

\* a response: the document the browser now shows and the body; show_bug
\* asked for nids bugs answers with at most one <bug> element per id
Response(page, body) == [page |-> page, body |-> body]
Responses(action, nids) ==
    IF action = "show_bug"
    THEN { Response(NonHtmlPage, b) : b \in XmlBodies(nids) }
    ELSE IF action = "buglist"
    THEN { Response(NonHtmlPage, b) : b \in FeedBodies(nids) }
    ELSE IF action = "show_bug_form"
    THEN { Response(IF b.html THEN BlankPage ELSE NonHtmlPage, b) : b \in FormBodies }
    ELSE IF action = "process_bug"
    THEN { Response(BlankPage, [markers |-> m]) : m \in SUBSET SubmitMarkers }
    ELSE { Response(pg, NoBody) : pg \in Pages }

\* the cookies a response sets: the server's session cookie comes with
\* every HTML page, not with the XML it serves
SetCookie(action) == IF action \in {"show_bug", "buglist"} THEN {{}} ELSE {{"srv"}}

\* status codes of a failed transport call (0: the error has no original
\* exception, or one without a code)
ErrorCodes == {0, 500, BadGateway}

CookieNames == {"old", "srv"}
NoCache == [present |-> FALSE, cookies |-> {}]
Cached(c) == [present |-> TRUE, cookies |-> c]

Classes == {"Bugzilla", "APIBugzilla", "DjangoBugzilla"}

\* ------------------------------------------------------------------- state
VARIABLES
    cls,          \* the client's class
    anonymous,    \* WebScraper.anonymous (no credentials)
    force_readonly, \* Bugzilla.force_readonly
    session,      \* what the last check_login / _check_login answered (history)
    cookie_set,   \* WebScraper.cookie_set
    jar,          \* browser.cookies
    cache,        \* django cache entry 'bugzilla-access-cookies'
    doc,          \* browser.doc
    stack,        \* the call stack, innermost frame last
    ret,          \* the value returned or the exception raised by the last pop
    op,           \* the top-level call being made (or last made)
    calls,        \* top-level calls made so far
    log           \* what the current top-level call did, in order

vars == <<cls, anonymous, force_readonly, session, cookie_set, jar, cache, doc, stack, ret, op, calls, log>>

NoErr == Err("None", "", "None")
NoRet == [kind |-> "none", v |-> "None", exc |-> NoErr]
Value(v) == [kind |-> "value", v |-> v, exc |-> NoErr]
Raised(e) == [kind |-> "raise", v |-> "None", exc |-> e]

Frame(fn, pc, arg, loc) == [fn |-> fn, pc |-> pc, arg |-> arg, loc |-> loc]
Top == stack[Len(stack)]
Depth == Len(stack)
At(fn, pc) == stack # <<>> /\ Top.fn = fn /\ Top.pc = pc
Returned == ret.kind = "value"

\* an event of the log: what happened, in which method, at which stack depth
EvX(ev, fn, a, res, x) ==
    [ev |-> ev, fn |-> fn, a |-> a, res |-> res, d |-> Depth, x |-> x]
Ev(ev, fn, a, res) == EvX(ev, fn, a, res, "")

\* the top frame moves to pc (and keeps loc) and calls callee
CallFrom(pc, loc, callee) ==
    /\ stack' = Append([stack EXCEPT ![Len(stack)] =
                                        [@ EXCEPT !.pc = pc, !.loc = loc]],
                       callee)
    /\ ret' = NoRet
Goto(pc, loc) ==
    stack' = [stack EXCEPT ![Len(stack)] = [@ EXCEPT !.pc = pc, !.loc = loc]]
\* the top frame returns v
Return(v) == stack' = Front(stack) /\ ret' = Value(v)

\* the methods whose entry and exit the log records
Logged == {"Bugzilla.login", "APIBugzilla.login", "DjangoBugzilla.login", "get_bugs"}

\* the exits, innermost first, of the frames an exception unwinds
RECURSIVE ExitsByRaise(_)
ExitsByRaise(stk) ==
    IF stk = <<>> THEN <<>>
    ELSE (IF Last(stk).fn \in Logged
          THEN <<[ev |-> "exit", fn |-> Last(stk).fn, a |-> "", res |-> "raise",
                  d |-> Len(stk), x |-> ""]>>
          ELSE <<>>) \o ExitsByRaise(Front(stk))

\* The top frame raises e after the events lg.  No method of the client
\* catches an exception that comes out of a method it called (the except
\* clauses of request, submit, login and get_bugs are modelled where the
\* guarded statement is), so e unwinds the whole stack and reaches the caller.
RaiseExc(e, lg) ==
    /\ stack' = <<>>
    /\ ret' = Raised(e)
    /\ log' = lg \o ExitsByRaise(stack)

LoginFrame(force) == Frame(cls \o ".login", "start", [force |-> force], [n |-> 0])
RequestFrame(action, nids) ==
    Frame("request", "try", [action |-> action, nids |-> nids], [error |-> NoErr])
SubmitFrame ==
    Frame("submit", "try", [action |-> "submit", nids |-> 0], [error |-> NoErr])

\* the top-level call: its name and arguments
Op(name, force, retry, permissive, store_errors) ==
    [name |-> name, force |-> force, retry |-> retry,
     permissive |-> permissive, store_errors |-> store_errors]

\* a client as its constructor leaves it, force_readonly being one of
\* readonly
Client(readonly) ==
    /\ cls \in Classes
    /\ anonymous \in BOOLEAN
    /\ force_readonly \in readonly
    /\ session = "Unknown"
    /\ cookie_set = FALSE
    /\ jar = {}
    /\ cache \in IF cls = "DjangoBugzilla"
                THEN {NoCache, Cached({}), Cached({"old"})}
                ELSE {NoCache}
    /\ doc = NonHtmlPage
    /\ stack = <<>>
    /\ ret = NoRet
    /\ op = Op("none", FALSE, FALSE, FALSE, FALSE)
    /\ calls = 0
    /\ log = <<>>

\* force_readonly=False is the constructor's default
Init == Client({FALSE})

\* ------------------------------------------------------- WebScraper (base)
\* WebScraper.set_cookies: installs the cookies and marks the session
SetCookies(cookies) == [jar |-> jar \cup cookies, cookie_set |-> TRUE]
\* WebScraper.get_cookies
GetCookies == jar

\* ------------------------------------------- request, submit, 502 recovery
\* (mutant) any transport error starts the re-login once cookies were installed
ReloginNeededAnyCode(error) == error.code # 0 /\ cookie_set
\* (mutant) a 502 starts the re-login whether or not the cookies were installed
ReloginNeededUnmarked(error) == error.code # 0 /\ error.code = BadGateway
\* the condition of possible_relogin (lines 258-261)
ReloginNeeded(error) == error.code # 0 /\ error.code = BadGateway /\ cookie_set

\* (mutant) possible_relogin forgets to reset cookie_set
ReloginCookieSetKept == cookie_set

\* line 265: what possible_relogin leaves in cookie_set before it logs in
ReloginCookieSet == FALSE

\* (mutant) the except clause raises without sending again
RetryNever(v) == FALSE
\* whether request()/submit() sends again after possible_relogin returned v
RetryAfter(v) == v = TRUE

\* the log's record of one transport attempt: which attempt of the frame it
\* was ("try" or "retry"), how it ended, and cookie_set and the cookie jar
\* at that moment
SendEvent(res, code) ==
    EvX("send", Top.fn, Top.pc, res,
        [cookie_set |-> cookie_set, code |-> code, jar |-> jar])

\* super().request(...) / super().submit(): one transport attempt of the
\* frame on top.  It succeeds with a response or fails with a
\* WebScraperError; a failure of the first attempt enters the except clause,
\* which calls possible_relogin(error); a failure of the second attempt
\* leaves the method.
Transport ==
    /\ stack # <<>>
    /\ Top.fn \in {"request", "submit"}
    /\ Top.pc \in {"try", "retry"}
    /\ \/ \E r \in Responses(Top.arg.action, Top.arg.nids), c \in SetCookie(Top.arg.action) :
            /\ doc' = r.page
            /\ jar' = jar \cup c
            /\ log' = Append(log, SendEvent("ok", 200))
            /\ Return(r)
       \/ \E code \in ErrorCodes :
            LET sent == Append(log, SendEvent("error", code))
            IN /\ IF Top.pc = "try"
                  THEN /\ CallFrom("except", [error |-> TransportErr(code)],
                                   Frame("possible_relogin", "check",
                                         [error |-> TransportErr(code)], [n |-> 0]))
                       /\ log' = sent
                  ELSE RaiseExc(TransportErr(code), sent)
               /\ UNCHANGED <<doc, jar>>
    /\ UNCHANGED <<cls, anonymous, force_readonly, session, cookie_set, cache, op, calls>>

\* lines 280-284 / 293-295: possible_relogin returned
RequestExcept ==
    /\ stack # <<>>
    /\ Top.fn \in {"request", "submit"}
    /\ Top.pc = "except"
    /\ Returned
    /\ IF RetryAfter(ret.v)
       THEN Goto("retry", Top.loc) /\ ret' = NoRet /\ log' = log
       ELSE RaiseExc(Top.loc.error, log)
    /\ UNCHANGED <<cls, anonymous, force_readonly, session, cookie_set, jar, cache, doc, op, calls>>

\* possible_relogin, lines 258-269, up to the call of login(force=True)
PossibleRelogin ==
    /\ At("possible_relogin", "check")
    /\ IF ReloginNeeded(Top.arg.error)
       THEN /\ cookie_set' = ReloginCookieSet
            /\ jar' = {}
            /\ log' = Append(log, Ev("clear", "possible_relogin", "", ""))
            /\ CallFrom("login", Top.loc, LoginFrame(TRUE))
       ELSE /\ Return(FALSE)
            /\ UNCHANGED <<cookie_set, jar, log>>
    /\ UNCHANGED <<cls, anonymous, force_readonly, session, cache, doc, op, calls>>

\* possible_relogin, line 268: login returned
PossibleReloginDone ==
    /\ At("possible_relogin", "login")
    /\ Returned
    /\ Return(TRUE)
    /\ UNCHANGED <<cls, anonymous, force_readonly, session, cookie_set, jar, cache, doc, op, calls, log>>

\* --------------------------------------------------------------- check_login
\* _check_login (lines 314-329) on the current document
check_page(d) ==
    IF ~d.html
    THEN Raise(Err("BugzillaLoginFailed", "Failed to load bugzilla form", "None"))
    ELSE IF d.logout = "plain" THEN Ok(TRUE)
    ELSE IF d.logout = "second" THEN Ok(TRUE)
    ELSE Ok(FALSE)

ProbeEvent(fn, r) ==
    Ev("probe", fn, "",
       IF r.kind = "raise" THEN "nohtml" ELSE IF r.v THEN "auth" ELSE "unauth")

\* check_login, line 310: the probe request
CheckLoginStart ==
    /\ At("check_login", "start")
    /\ CallFrom("got", Top.loc, RequestFrame("index", 0))
    /\ UNCHANGED <<cls, anonymous, force_readonly, session, cookie_set, jar, cache, doc, op, calls, log>>

\* check_login, line 312
CheckLoginDone ==
    /\ At("check_login", "got")
    /\ Returned
    /\ LET r == check_page(doc) IN
       /\ session' = IF r.kind = "raise" THEN session
                     ELSE IF r.v THEN "Authenticated" ELSE "Unauthenticated"
       /\ IF r.kind = "raise"
          THEN RaiseExc(r.exc, Append(log, ProbeEvent("check_login", r)))
          ELSE /\ log' = Append(log, ProbeEvent("check_login", r))
               /\ Return(r.v)
    /\ UNCHANGED <<cls, anonymous, force_readonly, cookie_set, jar, cache, doc, op, calls>>

\* ------------------------------------------------------------ Bugzilla.login
LoginFailed(msg) == Err("BugzillaLoginFailed", msg, "None")
ForceName(force) == IF force THEN "force" ELSE "noforce"
CheckLoginFrame == Frame("check_login", "start", [x |-> 0], [n |-> 0])

\* line 336: the first probe
BugzillaLoginStart ==
    /\ At("Bugzilla.login", "start")
    /\ log' = Append(log, Ev("enter", Top.fn, ForceName(Top.arg.force), ""))
    /\ CallFrom("probe1", Top.loc, CheckLoginFrame)
    /\ UNCHANGED <<cls, anonymous, force_readonly, session, cookie_set, jar, cache, doc, op, calls>>

\* (mutant) a forced login goes through the form whatever the probe says
AlreadyLoggedInUnlessForced(v, force) == v = TRUE /\ ~force

\* line 336: whether login(force) is done after the first probe returned v
AlreadyLoggedIn(v, force) == v = TRUE

\* lines 336-343: return when logged in, else select form 0 and submit it
BugzillaLoginProbed ==
    /\ At("Bugzilla.login", "probe1")
    /\ Returned
    /\ IF AlreadyLoggedIn(ret.v, Top.arg.force)
       THEN /\ log' = Append(log, Ev("exit", Top.fn, "", "ok"))
            /\ Return("None")
       ELSE IF ~doc.form
       THEN RaiseExc(LoginFailed("Failed to parse HTML for login!"), log)
       ELSE /\ log' = Append(log, Ev("choose_form", Top.fn, "", ""))
            /\ CallFrom("submit1", Top.loc, SubmitFrame)
    /\ UNCHANGED <<cls, anonymous, force_readonly, session, cookie_set, jar, cache, doc, op, calls>>

\* lines 346-354: select the login form, fill in the credentials, submit
BugzillaLoginForm ==
    /\ At("Bugzilla.login", "submit1")
    /\ Returned
    /\ IF ~doc.form \/ ~doc.inputs
       THEN RaiseExc(LoginFailed("Failed to parse HTML for login!"), log)
       ELSE /\ log' = log \o <<Ev("choose_form", Top.fn, "", ""),
                                Ev("credentials", Top.fn, "", "")>>
            /\ CallFrom("submit2", Top.loc, SubmitFrame)
    /\ UNCHANGED <<cls, anonymous, force_readonly, session, cookie_set, jar, cache, doc, op, calls>>

\* the next step of lines 364-379 with n redirect lines left to follow
AfterRedirects(n) ==
    IF n > 0
    THEN /\ log' = Append(log, Ev("redirect", Top.fn, "", ""))
         /\ CallFrom("redirects", [n |-> n - 1], RequestFrame("redirect", 0))
    ELSE /\ log' = log
         /\ CallFrom("probe2", [n |-> 0], CheckLoginFrame)

\* lines 356-374: the error paragraph, then the redirect lines of this page
BugzillaLoginSubmitted ==
    /\ At("Bugzilla.login", "submit2")
    /\ Returned
    /\ IF doc.errpara
       THEN RaiseExc(LoginFailed("error paragraph"), log)
       ELSE AfterRedirects(doc.redirects)
    /\ UNCHANGED <<cls, anonymous, force_readonly, session, cookie_set, jar, cache, doc, op, calls>>

\* line 374 returned: the next redirect line, or the final probe
BugzillaLoginRedirected ==
    /\ At("Bugzilla.login", "redirects")
    /\ Returned
    /\ AfterRedirects(Top.loc.n)
    /\ UNCHANGED <<cls, anonymous, force_readonly, session, cookie_set, jar, cache, doc, op, calls>>

\* (mutant) the result of the final probe is not looked at
LoginVerifiedAlways(v) == TRUE

\* line 376: whether the final probe, which returned v, verified the login
LoginVerified(v) == v = TRUE

\* lines 376-379
BugzillaLoginVerified ==
    /\ At("Bugzilla.login", "probe2")
    /\ Returned
    /\ IF LoginVerified(ret.v)
       THEN /\ log' = Append(log, Ev("exit", Top.fn, "", "ok"))
            /\ Return("None")
       ELSE RaiseExc(LoginFailed("Failed to verify login after successful login"),
                     log)
    /\ UNCHANGED <<cls, anonymous, force_readonly, session, cookie_set, jar, cache, doc, op, calls>>

\* --------------------------------------------------------- APIBugzilla.login
\* line 720
APILoginStart ==
    /\ At("APIBugzilla.login", "start")
    /\ log' = Append(log, Ev("enter", Top.fn, ForceName(Top.arg.force), ""))
    /\ CallFrom("got", Top.loc, RequestFrame("index", 0))
    /\ UNCHANGED <<cls, anonymous, force_readonly, session, cookie_set, jar, cache, doc, op, calls>>

\* lines 722-723
APILoginDone ==
    /\ At("APIBugzilla.login", "got")
    /\ Returned
    /\ LET r == check_page(doc) IN
       /\ session' = IF r.kind = "raise" THEN session
                     ELSE IF r.v THEN "Authenticated" ELSE "Unauthenticated"
       /\ IF r.kind = "raise"
          THEN RaiseExc(r.exc, Append(log, ProbeEvent(Top.fn, r)))
          ELSE IF ~LoginVerified(r.v)
          THEN RaiseExc(LoginFailed("Failed to login to bugzilla"),
                        Append(log, ProbeEvent(Top.fn, r)))
          ELSE /\ log' = log \o <<ProbeEvent(Top.fn, r), Ev("exit", Top.fn, "", "ok")>>
               /\ Return("None")
    /\ UNCHANGED <<cls, anonymous, force_readonly, cookie_set, jar, cache, doc, op, calls>>

\* ------------------------------------------------------ DjangoBugzilla.login
\* (mutant) "if not cookies" for "if cookies is None": an empty cached
\* cookie set counts as no cookies
DjangoCookiesFalsy(force) ==
    IF force \/ cache.cookies = {} THEN NoCache ELSE cache

\* (mutant) the cached cookies are installed even when force is set
DjangoCookiesForced(force) == cache

\* lines 749-752: the cookies to install (present FALSE is None)
DjangoCookies(force) == IF force THEN NoCache ELSE cache

\* lines 749-758, up to the call of super().login or set_cookies
DjangoLoginStart ==
    /\ At("DjangoBugzilla.login", "start")
    /\ LET cookies == DjangoCookies(Top.arg.force) IN
       IF ~cookies.present
       THEN /\ log' = Append(log, EvX("enter", Top.fn, ForceName(Top.arg.force), "",
                                        [cache |-> cache]))
            /\ CallFrom("super", Top.loc,
                        Frame("APIBugzilla.login", "start",
                              [force |-> Top.arg.force], [n |-> 0]))
            /\ UNCHANGED <<jar, cookie_set>>
       ELSE /\ log' = log \o <<EvX("enter", Top.fn, ForceName(Top.arg.force), "",
                                    [cache |-> cache]),
                                Ev("set_cookies", Top.fn, "", ""),
                                Ev("exit", Top.fn, "", "ok")>>
            /\ jar' = SetCookies(cookies.cookies).jar
            /\ cookie_set' = SetCookies(cookies.cookies).cookie_set
            /\ Return("None")
    /\ UNCHANGED <<cls, anonymous, force_readonly, session, cache, doc, op, calls>>

\* line 756: super().login returned
DjangoLoginDone ==
    /\ At("DjangoBugzilla.login", "super")
    /\ Returned
    /\ cache' = Cached(GetCookies)
    /\ log' = log \o <<Ev("cache_set", Top.fn, "", ""), Ev("exit", Top.fn, "", "ok")>>
    /\ Return("None")
    /\ UNCHANGED <<cls, anonymous, force_readonly, session, cookie_set, jar, doc, op, calls>>

\* ------------------------------------------------------------------ get_bugs
GetBugsFrame(nids, retry, permissive, store_errors) ==
    Frame("get_bugs", "start",
          [nids |-> nids, retry |-> retry, permissive |-> permissive,
           store_errors |-> store_errors],
          [n |-> 0])

\* (mutant) the retry forgets that an anonymous client cannot log in
RetryNeededAnonymous(exc, retry) ==
    IsA(exc.cls, "BugzillaNotPermitted") /\ retry

\* line 474: whether the exception that left the loop is answered by
\* login() and a second get_bugs
RetryNeeded(exc, retry) ==
    IsA(exc.cls, "BugzillaNotPermitted") /\ retry /\ ~anonymous

\* (mutant) the second get_bugs is made permissive
RetryFramePermissive(arg) == GetBugsFrame(arg.nids, FALSE, TRUE, FALSE)
\* line 477: the arguments of the second get_bugs
RetryFrame(arg) == GetBugsFrame(arg.nids, FALSE, arg.permissive, FALSE)

\* lines 439-443: the request
GetBugsStart ==
    /\ At("get_bugs", "start")
    /\ log' = Append(log, EvX("enter", "get_bugs", "", "", Top.arg))
    /\ CallFrom("data", Top.loc, RequestFrame("show_bug", Top.arg.nids))
    /\ UNCHANGED <<cls, anonymous, force_readonly, session, cookie_set, jar, cache, doc, op, calls>>

\* lines 446-478: sanitize, parse, build the list; a fatal parse failure
\* goes to _handle_parse_error, a NotPermitted may go to login()
GetBugsParse ==
    /\ At("get_bugs", "data")
    /\ Returned
    /\ LET body == ret.v.body
           data == escape_xml_text(body.text)
           h == handle_parse_error(data)
           r == BugsLoop(body.bugs, anonymous, Top.arg.permissive,
                         Top.arg.store_errors, <<>>, <<>>)
           \* for the log: the elements parsed and what the loop made of them
           seen == [elems |-> body.bugs, bugs |-> r.bugs, logged |-> r.logged,
                    raised |-> r.raised, exc |-> r.exc]
       IN
       IF body.fatal
       THEN IF h.kind = "raise"
            THEN RaiseExc(h.exc, Append(log, EvX("fatal", "get_bugs", "", "raise", data)))
            ELSE /\ log' = log \o <<EvX("fatal", "get_bugs", "", "logged", data),
                                     Ev("exit", "get_bugs", "", "ok")>>
                 /\ Return(<<>>)
       ELSE IF ~r.raised
       THEN /\ log' = log \o <<EvX("parsed", "get_bugs", "", "return", seen),
                                Ev("exit", "get_bugs", "", "ok")>>
            /\ Return(r.bugs)
       ELSE IF RetryNeeded(r.exc, Top.arg.retry)
       THEN /\ log' = Append(log, EvX("parsed", "get_bugs", "", "retry", seen))
            /\ CallFrom("login", Top.loc, LoginFrame(FALSE))
       ELSE RaiseExc(r.exc, Append(log, EvX("parsed", "get_bugs", "", "raise", seen)))
    /\ UNCHANGED <<cls, anonymous, force_readonly, session, cookie_set, jar, cache, doc, op, calls>>

\* line 477: login() returned, get_bugs again
GetBugsRetry ==
    /\ At("get_bugs", "login")
    /\ Returned
    /\ CallFrom("retry", Top.loc, RetryFrame(Top.arg))
    /\ UNCHANGED <<cls, anonymous, force_readonly, session, cookie_set, jar, cache, doc, op, calls, log>>

\* line 477: the second get_bugs returned; its list is the result
GetBugsRetried ==
    /\ At("get_bugs", "retry")
    /\ Returned
    /\ log' = Append(log, Ev("exit", "get_bugs", "", "ok"))
    /\ Return(ret.v)
    /\ UNCHANGED <<cls, anonymous, force_readonly, session, cookie_set, jar, cache, doc, op, calls>>

\* ------------------------------------------------------------------- get_bug
\* line 426
GetBugStart ==
    /\ At("get_bug", "start")
    /\ CallFrom("result", Top.loc, GetBugsFrame(1, Top.arg.retry, FALSE, FALSE))
    /\ UNCHANGED <<cls, anonymous, force_readonly, session, cookie_set, jar, cache, doc, op, calls, log>>

\* lines 427-429: the first entry, or None for an empty list
GetBugDone ==
    /\ At("get_bug", "result")
    /\ Returned
    /\ Return(IF ret.v # <<>> THEN <<ret.v[1]>> ELSE <<>>)
    /\ UNCHANGED <<cls, anonymous, force_readonly, session, cookie_set, jar, cache, doc, op, calls, log>>

\* ----------------------------------------------------------------- do_search
\* str.find(sub) for a text sub: index of the first occurrence, -1 for none
FindSeq(text, sub) ==
    LET at == {k \in 0..(Len(text) - Len(sub)) :
                  SubSeq(text, k + 1, k + Len(sub)) = sub}
    IN IF at = {} THEN -1 ELSE CHOOSE k \in at : \A j \in at : k <= j
\* text[start:] for start >= 0
Slice(text, start) ==
    IF start >= Len(text) THEN <<>> ELSE SubSeq(text, start + 1, Len(text))
\* int(text) for a text without blanks, sign or underscores: the decimal
\* number, ValueError when the text is empty or has another character
RECURSIVE DigitsValue(_)
DigitsValue(text) ==
    IF text = <<>> THEN 0 ELSE 10 * DigitsValue(Front(text)) + (Last(text) - 48)
ParseInt(text) ==
    IF text # <<>> /\ \A i \in 1..Len(text) : text[i] \in 48..57
    THEN Ok(DigitsValue(text))
    ELSE Raise(Err("ValueError", "invalid literal for int()", "None"))
\* (mutant) the URL is not stripped
WholeId(bugid) == bugid
\* line 505: bugid[bugid.find("?id=") + 4:]
AfterMarker(bugid) == Slice(bugid, FindSeq(bugid, QId) + 4)
\* line 505: the list of the numbers, or the first ValueError
RECURSIVE StripIds(_)
StripIds(bugs) ==
    IF bugs = <<>> THEN Ok(<<>>)
    ELSE LET n == ParseInt(AfterMarker(Head(bugs)))
             rest == StripIds(Tail(bugs))
         IN IF n.kind = "raise" THEN n
            ELSE IF rest.kind = "raise" THEN rest
            ELSE Ok(<<n.v>> \o rest.v)
\* lines 500-505: the id texts of all entries (None.text is an
\* AttributeError), then the numbers
SearchIds(entries) ==
    IF \E i \in 1..Len(entries) : ~entries[i].has
    THEN Raise(Err("AttributeError", "'NoneType' object has no attribute 'text'", "None"))
    ELSE StripIds([i \in 1..Len(entries) |-> entries[i].text])

\* lines 484-486: the request
DoSearchStart ==
    /\ At("do_search", "start")
    /\ CallFrom("data", Top.loc, RequestFrame("buglist", Top.arg.nids))
    /\ UNCHANGED <<cls, anonymous, force_readonly, session, cookie_set, jar, cache, doc, op, calls, log>>

\* lines 487-505: sanitize, parse, extract the ids
DoSearchParse ==
    /\ At("do_search", "data")
    /\ Returned
    /\ LET body == ret.v.body
           data == escape_xml_text(body.text)
           h == handle_parse_error(data)
           r == SearchIds(body.bugs)
       IN
       IF body.fatal
       THEN IF h.kind = "raise"
            THEN RaiseExc(h.exc, Append(log, EvX("fatal", "do_search", "", "raise", data)))
            ELSE /\ log' = Append(log, EvX("fatal", "do_search", "", "logged", data))
                 /\ Return(<<>>)
       ELSE IF r.kind = "raise"
       THEN RaiseExc(r.exc, Append(log, EvX("feed", "do_search", "", "raise", body.bugs)))
       ELSE /\ log' = Append(log, EvX("feed", "do_search", "", "return", body.bugs))
            /\ Return(r.v)
    /\ UNCHANGED <<cls, anonymous, force_readonly, session, cookie_set, jar, cache, doc, op, calls>>

\* ------------------------------------------------------ the whiteboard policy
\* an optional text argument: None, or a text
NoToken == [given |-> FALSE, text |-> <<>>]
Token(text) == [given |-> TRUE, text |-> text]
\* sub in text
Occurs(sub, text) == FindSeq(text, sub) # -1
\* (mutant) only the first occurrence is deleted
ReplaceFirst(text, old) ==
    LET k == FindSeq(text, old)
    IN IF k = -1 THEN text
       ELSE SubSeq(text, 1, k) \o Slice(text, k + Len(old))
\* text.replace(old, ''): every occurrence, found from left to right
RECURSIVE Replace(_, _)
Replace(text, old) ==
    IF old = <<>> \/ Len(text) < Len(old) THEN text
    ELSE IF SubSeq(text, 1, Len(old)) = old
    THEN Replace(Slice(text, Len(old)), old)
    ELSE <<Head(text)>> \o Replace(Tail(text), old)
\* _update_bug_whiteboard(remove, add) on a form whose status_whiteboard
\* is current_wb: the text it sets and the flag it returns
update_bug_whiteboard(current_wb, remove, add) ==
    LET removed == IF remove.given /\ Occurs(remove.text, current_wb)
                   THEN Replace(current_wb, remove.text)
                   ELSE current_wb
        whiteboard == IF add.given /\ ~Occurs(add.text, removed)
                      THEN removed \o <<32>> \o add.text
                      ELSE removed
    IN [whiteboard |-> whiteboard, changes |-> current_wb # whiteboard]

\* ---------------------------------------------------------------- update_bug
IGNORABLE_FIELDS == {"commentprivacy", "comment_is_private", "addselfcc", "groups"}
UpdateError(msg) == Err("BugzillaUpdateError", msg, "None")

\* (mutant) anonymous clients are not turned away
RefusesNever(anon) == FALSE
\* line 603: if self.anonymous
RefusesAnonymous(anon) == anon

\* load_update_form, lines 603-608
LoadUpdateFormStart ==
    /\ At("load_update_form", "start")
    /\ IF RefusesAnonymous(anonymous)
       THEN RaiseExc(UpdateError("No updates in anonymous mode!"), log)
       ELSE /\ CallFrom("data", Top.loc, RequestFrame("show_bug_form", 0))
            /\ log' = log
    /\ UNCHANGED <<cls, anonymous, force_readonly, session, cookie_set, jar, cache, doc, op, calls>>

\* load_update_form, lines 609-622: the page is examined, the form selected
LoadUpdateFormLoaded ==
    /\ At("load_update_form", "data")
    /\ Returned
    /\ LET page == ret.v.body IN
       IF ~page.authorized
       THEN RaiseExc(Err("BugzillaNotPermitted",
                         "You are not authorized to access bug #1.", "None"), log)
       ELSE IF ~doc.html
       THEN RaiseExc(Err("BugzillaLoginFailed", "Failed to load bugzilla form", "None"), log)
       ELSE IF ~page.changeform
       THEN RaiseExc(UpdateError("Failed to parse HTML to update bug!"), log)
       ELSE /\ log' = Append(log, EvX("form", "load_update_form", "", "", page))
            /\ Return(page)
    /\ UNCHANGED <<cls, anonymous, force_readonly, session, cookie_set, jar, cache, doc, op, calls>>

\* (mutant) the caller's addselfcc is overridden for a whiteboard change
WithSelfCcAlways(kwargs, add, remove) ==
    IF add.given \/ remove.given
    THEN [k \in DOMAIN kwargs \cup {"addselfcc"} |->
             IF k = "addselfcc" THEN <<>> ELSE kwargs[k]]
    ELSE kwargs
\* lines 634-636: kwargs['addselfcc'] = [] when the whiteboard is to be
\* changed and the caller gave no addselfcc; kwargs maps names to values
WithSelfCc(kwargs, add, remove) ==
    IF (add.given \/ remove.given) /\ "addselfcc" \notin DOMAIN kwargs
    THEN [k \in DOMAIN kwargs \cup {"addselfcc"} |->
             IF k = "addselfcc" THEN <<>> ELSE kwargs[k]]
    ELSE kwargs
\* (mutant) no missing field is forgiven
SetInputsStrict(kwargs, fields) ==
    IF \E k \in DOMAIN kwargs : k \notin fields
    THEN Raise(Err("DataNotFound", "input not found", "None"))
    ELSE Ok([changes |-> DOMAIN kwargs # {},
             inputs |-> [k \in DOMAIN kwargs \cap fields |-> kwargs[k]]])
\* lines 639-648: the inputs of the form are set; a field the form lacks
\* raises DataNotFound unless it may be ignored; every field counts as a
\* change.  The value holds changes and the inputs that were set.
SetInputs(kwargs, fields) ==
    IF \E k \in DOMAIN kwargs : k \notin fields /\ k \notin IGNORABLE_FIELDS
    THEN Raise(Err("DataNotFound", "input not found", "None"))
    ELSE Ok([changes |-> DOMAIN kwargs # {},
             inputs |-> [k \in DOMAIN kwargs \cap fields |-> kwargs[k]]])
\* (mutant) a read-only client submits too
SubmitsReadonly(changes, readonly) == changes
\* line 662: if not changes or self.force_readonly: return
Submits(changes, readonly) == changes /\ ~readonly
\* (mutant) the success text is looked for first
SubmitOutcomeSuccessFirst(data) ==
    IF "Changes submitted for" \in data THEN Ok("None")
    ELSE IF "Mid-air collision!" \in data THEN Raise(UpdateError("Mid-air collision!"))
    ELSE IF "reason=invalid_token" \in data THEN Raise(UpdateError("Suspicious Action"))
    ELSE Raise(UpdateError("Unknown error while submitting form"))
\* lines 668-673: what the answer to the submitted form means
SubmitOutcome(data) ==
    IF "Mid-air collision!" \in data THEN Raise(UpdateError("Mid-air collision!"))
    ELSE IF "reason=invalid_token" \in data THEN Raise(UpdateError("Suspicious Action"))
    ELSE IF "Changes submitted for" \notin data
    THEN Raise(UpdateError("Unknown error while submitting form"))
    ELSE Ok("None")

\* line 629
UpdateBugStart ==
    /\ At("update_bug", "start")
    /\ CallFrom("loaded", Top.loc, Frame("load_update_form", "start", [n |-> 0], [n |-> 0]))
    /\ UNCHANGED <<cls, anonymous, force_readonly, session, cookie_set, jar, cache, doc, op, calls, log>>

\* lines 631-666: fields, callback, whiteboard, then return or submit
UpdateBugChange ==
    /\ At("update_bug", "loaded")
    /\ Returned
    /\ LET form == ret.v
           a == Top.arg
           whiteboard == a.whiteboard_add.given \/ a.whiteboard_remove.given
           set == SetInputs(WithSelfCc(a.kwargs, a.whiteboard_add, a.whiteboard_remove),
                            form.fields)
           called == a.callback = "changed"
           policy == update_bug_whiteboard(form.whiteboard, a.whiteboard_remove,
                                           a.whiteboard_add)
           changes == set.v.changes \/ called \/ (whiteboard /\ policy.changes)
           decided == [fields |-> set.v.changes, callback |-> called,
                       whiteboard |-> whiteboard /\ policy.changes,
                       inputs |-> set.v.inputs]
       IN
       IF set.kind = "raise" THEN RaiseExc(set.exc, log)
       ELSE IF whiteboard /\ "status_whiteboard" \notin form.fields
       THEN RaiseExc(Err("KeyError", "status_whiteboard", "None"), log)
       ELSE IF Submits(changes, force_readonly)
       THEN /\ log' = Append(log, EvX("decide", "update_bug", "", "submit", decided))
            /\ CallFrom("submitted", Top.loc,
                        Frame("submit", "try", [action |-> "process_bug", nids |-> 0],
                              [error |-> NoErr]))
       ELSE /\ log' = Append(log, EvX("decide", "update_bug", "", "return", decided))
            /\ Return("None")
    /\ UNCHANGED <<cls, anonymous, force_readonly, session, cookie_set, jar, cache, doc, op, calls>>

\* lines 667-673: the answer to the submitted form
UpdateBugSubmitted ==
    /\ At("update_bug", "submitted")
    /\ Returned
    /\ LET data == ret.v.body.markers
           answered == Append(log, EvX("answer", "update_bug", "", "", data))
       IN IF SubmitOutcome(data).kind = "raise"
          THEN RaiseExc(SubmitOutcome(data).exc, answered)
          ELSE log' = answered /\ Return("None")
    /\ UNCHANGED <<cls, anonymous, force_readonly, session, cookie_set, jar, cache, doc, op, calls>>

\* ------------------------------------------------------------ the caller
Idle == stack = <<>>

\* the caller begins its next call on this client
Begin(o, frame) ==
    /\ Idle
    /\ calls < MaxCalls
    /\ calls' = calls + 1
    /\ op' = o
    /\ stack' = <<frame>>
    /\ ret' = NoRet
    /\ log' = <<>>

CallLogin ==
    /\ \E force \in BOOLEAN :
          Begin(Op("login", force, FALSE, FALSE, FALSE), LoginFrame(force))
    /\ UNCHANGED <<cls, anonymous, force_readonly, session, cookie_set, jar, cache, doc>>

CallGetBug ==
    /\ \E retry \in BOOLEAN :
          Begin(Op("get_bug", FALSE, retry, FALSE, FALSE),
                Frame("get_bug", "start", [retry |-> retry], [n |-> 0]))
    /\ UNCHANGED <<cls, anonymous, force_readonly, session, cookie_set, jar, cache, doc>>

\* the caller installs cookies it kept (WebScraper.set_cookies)
CallSetCookies ==
    /\ Idle
    /\ calls < MaxCalls
    /\ calls' = calls + 1
    /\ op' = Op("set_cookies", FALSE, FALSE, FALSE, FALSE)
    /\ jar' = SetCookies({"old"}).jar
    /\ cookie_set' = SetCookies({"old"}).cookie_set
    /\ ret' = Value("None")
    /\ log' = <<>>
    /\ UNCHANGED <<cls, anonymous, force_readonly, session, cache, doc, stack>>

\* the steps of the session: transport, recovery and login
SessionStep ==
    \/ Transport
    \/ RequestExcept
    \/ PossibleRelogin
    \/ PossibleReloginDone
    \/ CheckLoginStart
    \/ CheckLoginDone
    \/ BugzillaLoginStart
    \/ BugzillaLoginProbed
    \/ BugzillaLoginForm
    \/ BugzillaLoginSubmitted
    \/ BugzillaLoginRedirected
    \/ BugzillaLoginVerified
    \/ APILoginStart
    \/ APILoginDone
    \/ DjangoLoginStart
    \/ DjangoLoginDone

\* the steps of the methods, whoever called them
Step ==
    \/ SessionStep
    \/ GetBugsStart
    \/ GetBugsParse
    \/ GetBugsRetry
    \/ GetBugsRetried

\* A client on which the caller logs in, installs cookies and loads single
\* bugs, one call after the other.
Next ==
    \/ CallLogin
    \/ CallSetCookies
    \/ CallGetBug
    \/ GetBugStart
    \/ GetBugDone
    \/ Step

Spec == Init /\ [][Next]_vars

\* A fresh client on which the caller makes one get_bugs call, with any
\* combination of retry, permissive and store_errors.
CallGetBugs ==
    /\ calls = 0
    /\ \E retry \in BOOLEAN, permissive \in BOOLEAN, store_errors \in BOOLEAN :
          Begin(Op("get_bugs", FALSE, retry, permissive, store_errors),
                GetBugsFrame(MaxBugs, retry, permissive, store_errors))
    /\ UNCHANGED <<cls, anonymous, force_readonly, session, cookie_set, jar, cache, doc>>

NextBatch ==
    \/ CallGetBugs
    \/ Step

SpecBatch == Init /\ [][NextBatch]_vars

\* ================================================================== claims
IsLogin(fn) == fn \in {"Bugzilla.login", "APIBugzilla.login", "DjangoBugzilla.login"}
IsSend(e, ph) == e.ev = "send" /\ e.a = ph
\* a first attempt that failed with 502 while cookie_set was true
Is502Armed(e) ==
    IsSend(e, "try") /\ e.res = "error" /\ e.x.code = 502 /\ e.x.cookie_set
\* the first attempt of the frame that made the retry at index k
OwnTry(k) ==
    CHOOSE i \in 1..(k - 1) :
        /\ IsSend(log[i], "try") /\ log[i].d = log[k].d
        /\ \A j \in (i + 1)..(k - 1) : ~(IsSend(log[j], "try") /\ log[j].d = log[k].d)
HasOwnTry(k) == \E i \in 1..(k - 1) : IsSend(log[i], "try") /\ log[i].d = log[k].d
\* the exit of the method entered at index i (0: it has not left yet)
ExitOf(i) ==
    IF \E m \in (i + 1)..Len(log) : log[m].ev = "exit" /\ log[m].d = log[i].d
    THEN CHOOSE m \in (i + 1)..Len(log) :
            /\ log[m].ev = "exit" /\ log[m].d = log[i].d
            /\ \A j \in (i + 1)..(m - 1) : ~(log[j].ev = "exit" /\ log[j].d = log[i].d)
    ELSE 0

\* C1: a first attempt of request()/submit() that fails with 502 while
\* cookie_set is true is followed by possible_relogin clearing the cookie jar
\* and cookie_set and calling login(force=True); when that login returns, the
\* same frame sends again, once; a retry is made only so; and when the retry
\* fails, its error reaches the caller and nothing more is sent.
C1_ReloginThenRetryOnce ==
    /\ \A i \in 1..Len(log) : Is502Armed(log[i]) =>
          /\ i = Len(log) => At("possible_relogin", "check")
          /\ i < Len(log) =>
                /\ log[i + 1].ev = "clear"
                /\ log[i + 1].d = log[i].d + 1
          /\ i + 1 = Len(log) =>
                /\ ~cookie_set
                /\ jar = {}
                /\ Top = LoginFrame(TRUE)
                /\ Depth = log[i].d + 2
          /\ i + 1 < Len(log) =>
                /\ log[i + 2].ev = "enter"
                /\ IsLogin(log[i + 2].fn)
                /\ log[i + 2].a = "force"
                /\ log[i + 2].d = log[i].d + 2
                /\ LET m == ExitOf(i + 2) IN
                   (m # 0 /\ log[m].res = "ok") =>
                      /\ m = Len(log) =>
                            /\ Depth >= log[i].d
                            /\ stack[log[i].d].fn = log[i].fn
                            /\ stack[log[i].d].pc \in {"except", "retry"}
                      /\ m < Len(log) =>
                            /\ IsSend(log[m + 1], "retry")
                            /\ log[m + 1].fn = log[i].fn
                            /\ log[m + 1].d = log[i].d
    /\ \A k \in 1..Len(log) : IsSend(log[k], "retry") =>
          /\ HasOwnTry(k)
          /\ Is502Armed(log[OwnTry(k)])
          /\ \A j \in (OwnTry(k) + 1)..(k - 1) :
                ~(IsSend(log[j], "retry") /\ log[j].d = log[k].d)
          /\ log[k].res = "error" =>
                /\ Idle
                /\ ret = Raised(TransportErr(log[k].x.code))
                /\ \A j \in (k + 1)..Len(log) : log[j].ev = "exit"

\* a 502 recovery whose retry was sent once and failed
C1_Witness ==
    /\ Idle
    /\ \E i \in 1..Len(log), k \in 1..Len(log) :
          /\ Is502Armed(log[i])
          /\ IsSend(log[k], "retry") /\ log[k].res = "error"
          /\ OwnTry(k) = i

\* the recovery begun at index i (an armed 502) is still running at index j:
\* nothing at the depth of its frame or below has happened since
Within(i, j) == i < j /\ \A m \in (i + 1)..j : log[m].d > log[i].d
ReloginsRunning ==
    {n \in 1..Len(stack) : stack[n].fn = "possible_relogin" /\ stack[n].pc = "login"}

\* C2: recovery is bounded.  A frame of request()/submit() makes at most two
\* attempts (between two retries at one depth lies a first attempt of another
\* frame); while a re-login runs, none of its requests starts a second
\* recovery (never two re-logins on the stack, no cookie clearing inside a
\* recovery); and a request of the re-login that fails ends the whole call:
\* nothing is sent after it, so a server that answers 502 to everything is
\* asked twice.
C2_BoundedRecovery ==
    /\ Cardinality(ReloginsRunning) <= 1
    /\ \A k1 \in 1..Len(log), k2 \in 1..Len(log) :
          (k1 < k2 /\ IsSend(log[k1], "retry") /\ IsSend(log[k2], "retry")
              /\ log[k1].d = log[k2].d)
          => \E t \in (k1 + 1)..(k2 - 1) : IsSend(log[t], "try") /\ log[t].d = log[k1].d
    /\ \A i \in 1..Len(log) : Is502Armed(log[i]) =>
          \A j \in (i + 2)..Len(log) : Within(i, j) =>
              /\ log[j].ev # "clear"
              /\ ~IsSend(log[j], "retry")
              /\ (log[j].ev = "send" /\ log[j].res = "error") =>
                    /\ \A m \in (j + 1)..Len(log) : log[m].ev = "exit"
                    /\ Idle => ret = Raised(TransportErr(log[j].x.code))
                    /\ ~Idle =>
                          /\ j = Len(log)
                          /\ Depth >= log[j].d
                          /\ stack[log[j].d].pc = "except"

\* the server answered 502 to the request and to the re-login's probe, and
\* the call is over after these two attempts
C2_Witness ==
    /\ Idle
    /\ \E i \in 1..Len(log), j \in 1..Len(log) :
          /\ Is502Armed(log[i])
          /\ Within(i, j)
          /\ log[j].ev = "send" /\ log[j].res = "error" /\ log[j].x.code = 502
          /\ Cardinality({m \in 1..Len(log) : log[m].ev = "send"}) = 2

\* the call DjangoBugzilla.login() (no force) entered at index i of the log
IsDjangoLogin(i) ==
    /\ log[i].ev = "enter"
    /\ log[i].fn = "DjangoBugzilla.login"
    /\ log[i].a = "noforce"
\* the last index of the log that belongs to the method entered at index i
EndOf(i) == IF ExitOf(i) = 0 THEN Len(log) ELSE ExitOf(i)
\* the calls of super().login made by the frame entered at index i
SuperLogins(i) ==
    {k \in (i + 1)..EndOf(i) : /\ log[k].ev = "enter"
                               /\ log[k].fn = "APIBugzilla.login"
                               /\ log[k].d = log[i].d + 1}
\* the cache writes made by the frame entered at index i
CacheWrites(i) ==
    {k \in (i + 1)..EndOf(i) : log[k].ev = "cache_set" /\ log[k].d = log[i].d}

\* C3: DjangoBugzilla.login() without force.  With a cookie set in the cache
\* (an empty one too) the call installs it and sets cookie_set, sends nothing
\* and returns; with none, the call makes super().login() its first and only
\* step of that kind, and when it returns normally the cookies of the jar
\* have just been written to the cache, once; a call that fails writes
\* nothing.
C3_DjangoLoginCache ==
    \A i \in 1..Len(log) : IsDjangoLogin(i) =>
        IF log[i].x.cache.present
        THEN /\ i + 2 <= Len(log)
             /\ log[i + 1].ev = "set_cookies"
             /\ log[i + 2].ev = "exit" /\ log[i + 2].res = "ok"
             /\ log[i + 2].d = log[i].d
             /\ i + 2 = Len(log) =>
                   /\ cookie_set
                   /\ log[i].x.cache.cookies \subseteq jar
                   /\ cache = log[i].x.cache
        ELSE /\ i < Len(log) =>
                   /\ i + 1 \in SuperLogins(i)
                   /\ log[i + 1].a = "noforce"
             /\ Cardinality(SuperLogins(i)) <= 1
             /\ \A k \in (i + 1)..EndOf(i) : log[k].ev # "set_cookies"
             /\ LET m == ExitOf(i) IN
                /\ (m # 0 /\ log[m].res = "ok") =>
                      /\ CacheWrites(i) = {m - 1}
                      /\ m = Len(log) => cache = Cached(jar)
                /\ (m = 0 \/ log[m].res # "ok") => CacheWrites(i) = {}

\* a login() that finds in the cache the cookies an earlier login() of this
\* client wrote there, and installs them
C3_Witness ==
    /\ Idle
    /\ calls = 2
    /\ Len(log) = 3
    /\ IsDjangoLogin(1)
    /\ log[1].x.cache = Cached({"srv"})
    /\ log[2].ev = "set_cookies"
    /\ cookie_set
    /\ jar = {"srv"}

IsEnter(e, fn) == e.ev = "enter" /\ e.fn = fn
IsParsed(e) == e.ev = "parsed"
\* the parse at index p ended the loop with a NotPermitted error
NotPermittedAt(p) ==
    /\ IsParsed(log[p])
    /\ log[p].x.raised
    /\ IsA(log[p].x.exc.cls, "BugzillaNotPermitted")
\* the arguments of the get_bugs call whose parse is at index p
ArgsOf(p) ==
    log[CHOOSE e \in 1..(p - 1) :
            /\ IsEnter(log[e], "get_bugs") /\ log[e].d = log[p].d
            /\ \A j \in (e + 1)..(p - 1) :
                  ~(IsEnter(log[j], "get_bugs") /\ log[j].d = log[p].d)].x
\* the second get_bugs calls made by the frame whose parse is at index p
SecondCalls(p) ==
    {k \in (p + 1)..Len(log) : IsEnter(log[k], "get_bugs") /\ log[k].d = log[p].d + 1}

\* C4: a NotPermitted error that leaves the loop of get_bugs.  With retry
\* set and real credentials the call logs in (login(), no force) and, when
\* the login has returned, calls get_bugs once more for the same ids with
\* retry off; otherwise (retry off, which the second call is, or an
\* anonymous client) the error is raised to the caller at once, with no
\* login and no further request.
C4_NotPermittedRetry ==
    \A p \in 1..Len(log) : NotPermittedAt(p) =>
        IF ArgsOf(p).retry /\ ~anonymous
        THEN /\ log[p].res = "retry"
             /\ p = Len(log) => Top = LoginFrame(FALSE) /\ Depth = log[p].d + 1
             /\ p < Len(log) =>
                   /\ log[p + 1].ev = "enter"
                   /\ IsLogin(log[p + 1].fn)
                   /\ log[p + 1].a = "noforce"
                   /\ log[p + 1].d = log[p].d + 1
                   /\ LET m == ExitOf(p + 1) IN
                      /\ (m # 0 /\ log[m].res = "ok" /\ m < Len(log)) =>
                            /\ m + 1 \in SecondCalls(p)
                            /\ log[m + 1].x.retry = FALSE
                            /\ log[m + 1].x.nids = ArgsOf(p).nids
                            /\ log[m + 1].x.permissive = ArgsOf(p).permissive
                      /\ (m = 0 \/ log[m].res # "ok") => SecondCalls(p) = {}
                      /\ \A k \in SecondCalls(p) : k = m + 1
        ELSE /\ log[p].res = "raise"
             /\ Idle
             /\ ret = Raised(log[p].x.exc)
             /\ \A j \in (p + 1)..Len(log) : log[j].ev = "exit" /\ log[j].res = "raise"

\* both attempts of one get_bugs call met a NotPermitted error, and the
\* second one's error reached the caller
C4_Witness ==
    /\ Idle
    /\ ret.kind = "raise"
    /\ IsA(ret.exc.cls, "BugzillaNotPermitted")
    /\ \E p \in 1..Len(log), q \in 1..Len(log) :
          /\ p < q
          /\ NotPermittedAt(p) /\ log[p].res = "retry"
          /\ NotPermittedAt(q) /\ log[q].res = "raise"
          /\ log[q].d = log[p].d + 1

IsProbingLogin(fn) == fn \in {"Bugzilla.login", "APIBugzilla.login"}
\* the entry of the method that leaves at index m
EnterOf(m) ==
    CHOOSE i \in 1..(m - 1) :
        /\ log[i].ev = "enter" /\ log[i].d = log[m].d
        /\ \A j \in (i + 1)..(m - 1) : ~(log[j].ev = "enter" /\ log[j].d = log[m].d)
\* the probes made by the login call entered at index i, up to index m:
\* Bugzilla.login probes through check_login, one frame deeper
ProbesOf(i, m) ==
    {k \in (i + 1)..m :
        /\ log[k].ev = "probe"
        /\ log[k].d = IF log[i].fn = "Bugzilla.login" THEN log[i].d + 1 ELSE log[i].d}
\* the probe at index k of the login entered at index i comes after the
\* login flow (APIBugzilla.login has one probe only, after its request)
IsFinalProbe(i, k) ==
    \/ log[i].fn = "APIBugzilla.login"
    \/ \E c \in (i + 1)..(k - 1) : log[c].ev = "credentials" /\ log[c].d = log[i].d
Max(S) == CHOOSE x \in S : \A y \in S : y <= x

\* C5: Bugzilla.login and APIBugzilla.login return only after a probe of
\* that call, the last one it made, found the page authenticated; a final
\* probe that finds it unauthenticated ends the call with LoginFailed, which
\* reaches the caller.
C5_LoginOnlyIfAuthenticated ==
    /\ \A m \in 1..Len(log) :
          (log[m].ev = "exit" /\ log[m].res = "ok" /\ IsProbingLogin(log[m].fn)) =>
              LET P == ProbesOf(EnterOf(m), m) IN
              /\ P # {}
              /\ log[Max(P)].res = "auth"
    /\ \A i \in 1..Len(log) :
          (log[i].ev = "enter" /\ IsProbingLogin(log[i].fn)) =>
              \A k \in ProbesOf(i, EndOf(i)) :
                  (IsFinalProbe(i, k) /\ log[k].res = "unauth") =>
                      /\ \A j \in (k + 1)..Len(log) :
                            log[j].ev = "exit" /\ log[j].res = "raise"
                      /\ Idle =>
                            /\ ret.kind = "raise"
                            /\ ret.exc.cls = "BugzillaLoginFailed"
                      /\ ~Idle =>
                            /\ k = Len(log)
                            /\ At("Bugzilla.login", "probe2")
                            /\ ret = Value(FALSE)

\* Bugzilla.login went through the form, sent the credentials, and returned
\* after its final probe
C5_Witness ==
    /\ Idle
    /\ Len(log) > 2
    /\ log[1].ev = "enter" /\ log[1].fn = "Bugzilla.login"
    /\ log[Len(log)].ev = "exit" /\ log[Len(log)].res = "ok" /\ log[Len(log)].d = 1
    /\ \E c \in 1..Len(log) : log[c].ev = "credentials" /\ log[c].d = 1
    /\ log[Len(log) - 1].ev = "probe" /\ log[Len(log) - 1].res = "auth"

Min(S) == CHOOSE x \in S : \A y \in S : x <= y
\* what the login flow of Bugzilla.login does at the depth d of its frame,
\* and the requests it makes itself (its probes go through check_login)
IsFlowEvent(e, d) ==
    \/ e.ev \in {"choose_form", "credentials", "redirect"} /\ e.d = d
    \/ e.ev = "send" /\ e.d = d + 1

\* C6: a Bugzilla.login call, forced or not, whose first probe finds the
\* page authenticated returns right after that probe: it selects no form,
\* fills in no credentials, submits nothing and follows no redirect.
C6_LoginNoOpWhenAuthenticated ==
    \A i \in 1..Len(log) : IsEnter(log[i], "Bugzilla.login") =>
        LET P == ProbesOf(i, EndOf(i)) IN
        (P # {} /\ log[Min(P)].res = "auth") =>
            LET k == Min(P) IN
            /\ \A j \in (i + 1)..EndOf(i) : ~IsFlowEvent(log[j], log[i].d)
            /\ k = Len(log) =>
                  /\ Depth = log[i].d
                  /\ At("Bugzilla.login", "probe1")
                  /\ ret = Value(TRUE)
            /\ k < Len(log) =>
                  /\ ExitOf(i) = k + 1
                  /\ log[k + 1].res = "ok"

\* a forced Bugzilla.login that found the page authenticated and returned
C6_Witness ==
    /\ Idle
    /\ Len(log) > 2
    /\ IsEnter(log[1], "Bugzilla.login") /\ log[1].a = "force"
    /\ log[Len(log) - 1].ev = "probe" /\ log[Len(log) - 1].res = "auth"
    /\ log[Len(log) - 1].d = 2
    /\ ExitOf(1) = Len(log)
    /\ \A j \in 1..Len(log) : ~IsFlowEvent(log[j], 1)

\* what the constructor makes of each <bug> element of the parse at p
Built(p) ==
    [k \in 1..Len(log[p].x.elems) |-> Bug(log[p].x.elems[k], anonymous)]
\* in b, the results of the constructor: the elements that fail, those that
\* fail with a per-bug error (a BugzillaError), the first that fails (0: none)
Fails(b, k) == b[k].kind # "ok"
FailsPerBug(b, k) == Fails(b, k) /\ IsA(b[k].exc.cls, "BugzillaError")
Failing(b) == {k \in DOMAIN b : Fails(b, k)}
PerBugFailing(b) == {k \in DOMAIN b : FailsPerBug(b, k)}
FirstFailing(b) == IF Failing(b) = {} THEN 0 ELSE Min(Failing(b))
\* the login-and-retry rule applies to the error e of a call with arguments a
RetryRule(a, e) == IsA(e.cls, "BugzillaNotPermitted") /\ a.retry /\ ~anonymous
\* the error e of the parse at p is raised to the caller there and then
RaisedAt(p, e) ==
    /\ log[p].res = "raise"
    /\ Idle
    /\ ret = Raised(e)
    /\ \A j \in (p + 1)..Len(log) : log[j].ev = "exit" /\ log[j].res = "raise"
\* the parse at index p is that of a get_bugs call made in default mode
IsDefaultParse(p) ==
    /\ IsParsed(log[p])
    /\ ~ArgsOf(p).permissive
    /\ ~ArgsOf(p).store_errors

\* C7 as stated: in default mode a response with a failing <bug> element
\* aborts the batch, whatever else happens: the call ends by raising and
\* returns no records.
C7_FirstErrorAlwaysRaised ==
    \A p \in 1..Len(log) :
        (Idle /\ IsDefaultParse(p) /\ log[p].d = 1 /\ FirstFailing(Built(p)) # 0)
        => ret.kind = "raise"

\* C7 (amended): in default mode the first failing <bug> element in
\* document order ends the loop with its error and the attempt returns no
\* list, not even the records parsed before it; the error is raised to the
\* caller at once, unless it is a NotPermitted with retry set on a client
\* with real credentials, where login() and the second get_bugs follow.
C7_FirstErrorAborts ==
    \A p \in 1..Len(log) : IsDefaultParse(p) =>
        LET b == Built(p)
            f == FirstFailing(b)
        IN f # 0 =>
            /\ log[p].x.raised
            /\ log[p].x.exc = b[f].exc
            /\ log[p].res # "return"
            /\ IF RetryRule(ArgsOf(p), b[f].exc)
               THEN log[p].res = "retry"
               ELSE RaisedAt(p, b[f].exc)

\* a NotFound on the second element, after a record was parsed, raised
C7_Witness ==
    /\ Idle
    /\ \E p \in 1..Len(log) :
          /\ IsDefaultParse(p) /\ log[p].d = 1
          /\ FirstFailing(Built(p)) = 2
          /\ ret = Raised(Built(p)[2].exc)
          /\ ret.exc.cls = "BugzillaNotFound"

\* the records of a list, without the error objects
Records(list) == SelectSeq(list, LAMBDA x : ~x.isError)
\* in document order, the records of the elements of b that do not fail
RECURSIVE GoodRecords(_, _)
GoodRecords(b, k) ==
    IF k = 0 THEN <<>>
    ELSE IF Fails(b, k) THEN GoodRecords(b, k - 1)
    ELSE Append(GoodRecords(b, k - 1), BugEntry(b[k].v))
\* in document order, the errors of the elements of b that fail
RECURSIVE ErrorsOf(_, _)
ErrorsOf(b, k) ==
    IF k = 0 THEN <<>>
    ELSE IF Fails(b, k) THEN Append(ErrorsOf(b, k - 1), b[k].exc)
    ELSE ErrorsOf(b, k - 1)
\* the parse at p returned the list it built, and nothing followed
ReturnedAt(p) ==
    /\ log[p].res = "return"
    /\ p < Len(log)
    /\ log[p + 1].ev = "exit" /\ log[p + 1].res = "ok" /\ log[p + 1].d = log[p].d
    /\ \A j \in (p + 1)..Len(log) : log[j].ev = "exit"
    /\ (Idle /\ log[p].d = 1) => ret = Value(log[p].x.bugs)

\* C8: in permissive mode no per-bug error (a BugzillaError: NotPermitted,
\* NotFound, InvalidBugId, generic) leaves get_bugs and none starts a login
\* or a second request; when the failing elements fail with per-bug errors,
\* each is logged, and the call returns the records of the other elements
\* in document order.
C8_PermissiveSkips ==
    \A p \in 1..Len(log) : (IsParsed(log[p]) /\ ArgsOf(p).permissive) =>
        LET b == Built(p)
            n == Len(log[p].x.elems)
        IN
        /\ log[p].res # "retry"
        /\ log[p].x.raised => ~IsA(log[p].x.exc.cls, "BugzillaError")
        /\ Failing(b) = PerBugFailing(b) =>
              /\ ReturnedAt(p)
              /\ Records(log[p].x.bugs) = GoodRecords(b, n)
              /\ log[p].x.logged = ErrorsOf(b, n)

\* a permissive call that skipped a NotPermitted element and returned the
\* record of the element after it
C8_Witness ==
    /\ Idle
    /\ op.permissive /\ ~op.store_errors
    /\ ret.kind = "value"
    /\ Len(ret.v) = 1
    /\ \E p \in 1..Len(log) :
          /\ IsParsed(log[p])
          /\ Len(log[p].x.elems) = 2
          /\ FailsPerBug(Built(p), 1)
          /\ Built(p)[1].exc.cls = "BugzillaNotPermitted"
          /\ ret.v = <<BugEntry(Built(p)[2].v)>>

\* the entry store_errors gives the k-th element of b
EntryOf(b, k) == IF Fails(b, k) THEN ErrEntry(b[k].exc) ELSE BugEntry(b[k].v)

\* C9 as stated: with store_errors and without permissive, a per-bug error
\* in the response is still raised, whatever else happens: the call ends
\* by raising.
C9_StoredErrorAlwaysRaised ==
    \A p \in 1..Len(log) :
        (Idle /\ IsParsed(log[p]) /\ log[p].d = 1 /\ ArgsOf(p).store_errors
            /\ ~ArgsOf(p).permissive /\ FirstFailing(Built(p)) # 0
            /\ FailsPerBug(Built(p), FirstFailing(Built(p))))
        => ret.kind = "raise"

\* C9 (amended): with store_errors the list holds, at the position of each
\* element that failed with a per-bug error, the error object.  Without
\* permissive the first such error ends the loop and is raised to the
\* caller at once, unless it is a NotPermitted with retry set on a client
\* with real credentials, where login() and the second get_bugs (made
\* without store_errors) follow; with permissive the returned list has
\* one entry, record or error object, per <bug> element in document order.
C9_StoreErrors ==
    \A p \in 1..Len(log) : (IsParsed(log[p]) /\ ArgsOf(p).store_errors) =>
        LET list == log[p].x.bugs
            args == ArgsOf(p)
            b == Built(p)
            f == FirstFailing(b)
            allPerBug == Failing(b) = PerBugFailing(b)
        IN
        /\ Len(list) <= Len(log[p].x.elems)
        /\ \A k \in 1..Len(list) : list[k] = EntryOf(b, k)
        /\ \A k \in PerBugFailing(b) :
              ((args.permissive /\ allPerBug) \/ k = f)
              => (k <= Len(list) /\ list[k] = ErrEntry(b[k].exc))
        /\ (~args.permissive /\ f # 0 /\ FailsPerBug(b, f)) =>
              /\ log[p].x.raised
              /\ log[p].x.exc = b[f].exc
              /\ Len(list) = f
              /\ IF RetryRule(args, b[f].exc)
                 THEN /\ log[p].res = "retry"
                      /\ \A k \in SecondCalls(p) : ~log[k].x.store_errors
                 ELSE RaisedAt(p, b[f].exc)
        /\ (args.permissive /\ allPerBug) =>
              /\ ReturnedAt(p)
              /\ Len(list) = Len(log[p].x.elems)

\* a permissive call with store_errors that returned an error object in
\* the first place and a record in the second
C9_Witness ==
    /\ Idle
    /\ op.permissive /\ op.store_errors
    /\ ret.kind = "value"
    /\ Len(ret.v) = 2
    /\ ret.v[1].isError /\ ret.v[1].exc.cls = "BugzillaNotFound"
    /\ ~ret.v[2].isError

\* the body the parser gave up on at index p is not empty and holds neither
\* the 'Buglist Too Large' nor the internal-error marker
IsPlainFatal(p) ==
    /\ log[p].ev = "fatal"
    /\ log[p].x # <<>>
    /\ Find(log[p].x, TooLargeMarker) = -1
    /\ Find(log[p].x, InternalErrorMarker) = -1

\* C10: a response that cannot be parsed at all, is not empty and holds
\* neither marker is logged, and get_bugs returns an empty list without
\* raising.
C10_UnparsableReturnsEmpty ==
    \A p \in 1..Len(log) : IsPlainFatal(p) =>
        /\ log[p].res = "logged"
        /\ p < Len(log)
        /\ log[p + 1].ev = "exit" /\ log[p + 1].res = "ok"
        /\ (Idle /\ log[p].d = 1) => ret = Value(<<>>)

\* A fresh client on which the caller makes one do_search call.  Its
\* session is not marked (cookie_set is false), so possible_relogin never
\* logs in and the request is sent once.
CallDoSearch ==
    /\ calls = 0
    /\ Begin(Op("do_search", FALSE, FALSE, FALSE, FALSE),
             Frame("do_search", "start", [nids |-> MaxBugs], [n |-> 0]))
    /\ UNCHANGED <<cls, anonymous, force_readonly, session, cookie_set, jar, cache, doc>>

NextSearch ==
    \/ CallDoSearch
    \/ DoSearchStart
    \/ DoSearchParse
    \/ Transport
    \/ RequestExcept
    \/ PossibleRelogin

SpecSearch == Init /\ [][NextSearch]_vars

\* A fresh client of class Bugzilla, read-only or not, on which the caller
\* makes one update_bug call: any fields, a callback or none, whiteboard
\* tokens or none.  Its session is not marked, so no login is made.
InitUpdate == Client(BOOLEAN) /\ cls = "Bugzilla"
CallUpdateBug ==
    /\ calls = 0
    /\ \E names \in SUBSET KwargNames, selfcc \in {<<>>, <<"on">>},
          callback \in {"None", "changed", "unchanged"},
          add, remove \in {NoToken, Token(<<97>>), Token(<<98>>)} :
          \* the values given: a selection for addselfcc, a text otherwise
          LET kwargs == [k \in names |-> IF k = "addselfcc" THEN selfcc ELSE <<"FIXED">>]
          IN
          LET call == [name |-> "update_bug", kwargs |-> kwargs, callback |-> callback,
                       whiteboard_add |-> add, whiteboard_remove |-> remove]
          IN Begin(call, Frame("update_bug", "start", call, [n |-> 0]))
    /\ UNCHANGED <<cls, anonymous, force_readonly, session, cookie_set, jar, cache, doc>>

NextUpdate ==
    \/ CallUpdateBug
    \/ UpdateBugStart
    \/ LoadUpdateFormStart
    \/ LoadUpdateFormLoaded
    \/ UpdateBugChange
    \/ UpdateBugSubmitted
    \/ Transport
    \/ RequestExcept
    \/ PossibleRelogin

SpecUpdate == InitUpdate /\ [][NextUpdate]_vars

\* ------------------------------------------------ the functions, applied
\* The functions of the module applied once to an input: op holds the
\* function and its input, ret what it gave.  They do not read the client.
MaxKids == 2

Apply(name, input, result) ==
    /\ Idle
    /\ calls = 0
    /\ calls' = 1
    /\ op' = [name |-> name, input |-> input]
    /\ ret' = result
    /\ UNCHANGED <<cls, anonymous, force_readonly, session, cookie_set, jar, cache, doc, stack, log>>

\* <bug> elements: any error attribute (missing, empty, the three known
\* values, another one) over up to MaxKids children
ErrorAttributes == {"None", "", "NotPermitted", "NotFound", "InvalidBugId", "Other"}
BugKids ==
    {Leaf("bug_id", "7"), Leaf("bug_id", "8"), Leaf("bug_id", "None"),
     Leaf("short_desc", "crash")}
BugInputs ==
    {BugElem(error, kids) : error \in ErrorAttributes, kids \in SeqsUpTo(BugKids, MaxKids)}
ApplyBug ==
    \E bug_et \in BugInputs, anon \in BOOLEAN :
        Apply("Bug", [bug_et |-> bug_et, anonymous |-> anon], Bug(bug_et, anon))

\* texts given to escape_xml_text: every control character, the space and
\* '!' after them, and the characters the replacements are written with
EscapeUnits == 0..33 \cup {48, 92, 120}
\* the caller writes the text it will pass, one character after another
DrawText ==
    /\ Idle
    /\ calls = 0
    /\ LET drawn == IF op.name = "text" THEN op.input ELSE <<>> IN
       /\ Len(drawn) < MaxText
       /\ \E c \in EscapeUnits : op' = [name |-> "text", input |-> Append(drawn, c)]
    /\ UNCHANGED <<cls, anonymous, force_readonly, session, cookie_set, jar, cache, doc,
                   stack, ret, calls, log>>
ApplyEscape ==
    LET data == IF op.name = "text" THEN op.input ELSE <<>>
    IN Apply("escape_xml_text", data, Value(escape_xml_text(data)))

\* whiteboards of up to MaxBoard characters and tokens of up to MaxText
MaxBoard == 3
BoardUnits == {97, 98}
Tokens == {NoToken} \cup {Token(t) : t \in SeqsUpTo(BoardUnits, MaxText)}
ApplyWhiteboard ==
    \E current_wb \in SeqsUpTo(BoardUnits, MaxBoard), remove \in Tokens, add \in Tokens :
        Apply("_update_bug_whiteboard",
              [whiteboard |-> current_wb, remove |-> remove, add |-> add],
              Value(update_bug_whiteboard(current_wb, remove, add)))

\* Children of a <bug> element without error attribute: ids, cc, alias and
\* group addresses, flags, comments with and without author and time, an
\* empty long_desc, an attachment, a summary, and leaves whose tags are names
\* of attributes the record has from the start.
RecordKids ==
    {Leaf("bug_id", "7"), Leaf("bug_id", "8"), Leaf("short_desc", "crash"),
     Leaf("cc", "a@x"), Leaf("cc", "b@x"), Leaf("alias", "al"), Leaf("group", "sec"),
     Elem("flag", "None", {<<"name", "needinfo">>}, <<>>),
     Elem("flag", "None", {<<"name", "review">>, <<"status", "?">>, <<"requestee", "">>}, <<>>),
     Elem("long_desc", "None", {<<"isprivate", "1">>}, CommentKids(TRUE, TRUE, TRUE)),
     Elem("long_desc", "None", {}, CommentKids(FALSE, TRUE, TRUE)),
     Elem("long_desc", "None", {}, CommentKids(TRUE, FALSE, TRUE)),
     Leaf("long_desc", "None"),
     Elem("attachment", "None", {<<"ispatch", "1">>},
          <<Leaf("attachid", "3"), Leaf("desc", "fix"), Leaf("date", "2015-06-30 12:30"),
            Leaf("filename", "f.diff"), Leaf("type", "text/plain"), Leaf("size", "10"),
            Leaf("attacher", "bob")>>)}
    \cup {Leaf(name, "x") : name \in {"cc_list", "groups", "aliases", "flags",
                                      "comments", "attachments", "anonymous"}}
\* the children of the element written so far, one more at each step
DrawChild ==
    /\ Idle
    /\ calls = 0
    /\ LET drawn == IF op.name = "children" THEN op.input ELSE <<>> IN
       /\ Len(drawn) < MaxKids
       /\ \E kid \in RecordKids :
             op' = [name |-> "children", input |-> Append(drawn, kid)]
    /\ UNCHANGED <<cls, anonymous, force_readonly, session, cookie_set, jar, cache, doc,
                   stack, ret, calls, log>>
ApplyRecord ==
    LET bug_et == BugElem("None", IF op.name = "children" THEN op.input ELSE <<>>)
    IN \E anon \in BOOLEAN :
          Apply("Bug", [bug_et |-> bug_et, anonymous |-> anon], Bug(bug_et, anon))

\* the functions do not read the client: one client is enough
InitPure == Init /\ cls = "Bugzilla" /\ ~anonymous

SpecBug == InitPure /\ [][ApplyBug]_vars
SpecEscape == InitPure /\ [][ApplyEscape \/ DrawText]_vars
SpecWhiteboard == InitPure /\ [][ApplyWhiteboard]_vars
SpecRecord == InitPure /\ [][ApplyRecord \/ DrawChild]_vars

\* the errors _handle_parse_error raises
TooLargeError == Err("BuglistTooLarge", "Buglist too large", "None")
InternalError == Err("BugzillaError", "Bugzilla has suffered an internal error.", "None")
EmptyError == Err("BugzillaError", "Received empty response from Bugzilla.", "None")
Contains(data, marker) == Find(data, marker) # -1

\* C11: on a fatal parse failure the body decides the error raised: the
\* list-too-large error when it holds the 'Buglist Too Large' marker;
\* otherwise the internal-error error exactly when it holds the
\* internal-error marker; otherwise the empty-response error when it is
\* empty.
C11_FatalErrorPriority ==
    \A p \in 1..Len(log) : (log[p].ev = "fatal" /\ Idle) =>
        LET data == log[p].x IN
        /\ Contains(data, TooLargeMarker) => ret = Raised(TooLargeError)
        /\ ~Contains(data, TooLargeMarker) =>
              /\ ret = Raised(InternalError) <=> Contains(data, InternalErrorMarker)
              /\ data = <<>> => ret = Raised(EmptyError)

\* the bug id an error of Bug carries: the text of the first bug_id child
IdOf(bug_et) ==
    IF \E i \in 1..Len(bug_et.children) : bug_et.children[i].tag = "bug_id"
    THEN LET first == Min({i \in 1..Len(bug_et.children) :
                              bug_et.children[i].tag = "bug_id"})
         IN bug_et.children[first].text
    ELSE "None"
TypedErrors ==
    [NotPermitted |-> "BugzillaNotPermitted", NotFound |-> "BugzillaNotFound",
     InvalidBugId |-> "BugzillaInvalidBugId"]
RaisesTyped(bug_et) ==
    /\ ret.kind = "raise"
    /\ bug_et.error \in DOMAIN TypedErrors =>
          /\ ret.exc.cls = TypedErrors[bug_et.error]
          /\ ret.exc.bug_id = IdOf(bug_et)

\* C12: a <bug> element that carries an error attribute never gives a
\* record; NotPermitted, NotFound and InvalidBugId raise the error of that
\* name with the text of the bug_id child, or null when there is none, as
\* bug id.
C12_ErrorAttributeRaises ==
    (op.name = "Bug" /\ op.input.bug_et.error # "None") => RaisesTyped(op.input.bug_et)
C12_Witness ==
    /\ op.name = "Bug"
    /\ op.input.bug_et =
          BugElem("InvalidBugId", <<Leaf("short_desc", "crash"), Leaf("bug_id", "8")>>)
    /\ ret = Raise(Err("BugzillaInvalidBugId", "InvalidBugId", "8"))

\* the characters escape_xml_text replaces
IsControl(c) == c \in 0..31 \ {9, 10, 13}
\* where the image of data[i] starts in the escaped text
ImageAt(data, i) == i + 3 * Cardinality({j \in 1..(i - 1) : IsControl(data[j])})

\* C14: escape_xml_text replaces every control character 0..31 other than
\* 9, 10 and 13 by backslash, 'x' and its two-digit zero-padded decimal
\* code, and leaves every other character unchanged and in place; a text
\* without such characters comes back unchanged; a text always comes back.
C14_EscapeControlCharacters ==
    op.name = "escape_xml_text" =>
        LET data == op.input
            out == ret.v
        IN /\ ret.kind = "value"
           /\ Len(out) = ImageAt(data, Len(data) + 1) - 1
           /\ \A i \in 1..Len(data) :
                 LET at == ImageAt(data, i) IN
                 IF IsControl(data[i])
                 THEN /\ out[at] = 92
                      /\ out[at + 1] = 120
                      /\ out[at + 2] \in 48..57
                      /\ out[at + 3] \in 48..57
                      /\ 10 * (out[at + 2] - 48) + (out[at + 3] - 48) = data[i]
                 ELSE out[at] = data[i]
           /\ (\A i \in 1..Len(data) : ~IsControl(data[i])) => out = data
C14_Witness ==
    /\ op.name = "escape_xml_text"
    /\ op.input = <<9, 31>>
    /\ ret = Value(<<9, 92, 120, 51, 49>>)

\* the id text ends in '?id=' and digits: what is before the marker, and
\* the digits after it
WellFormed(text) ==
    \E k \in 0..(Len(text) - 5) :
        /\ SubSeq(text, k + 1, k + 4) = QId
        /\ \A j \in 0..(k - 1) : SubSeq(text, j + 1, j + 4) # QId
        /\ \A i \in (k + 5)..Len(text) : text[i] \in 48..57
DigitsAfterMarker(text) ==
    LET k == CHOOSE k \in 0..(Len(text) - 5) : SubSeq(text, k + 1, k + 4) = QId
    IN SubSeq(text, k + 5, Len(text))
RECURSIVE Number(_)
Number(digits) ==
    IF Len(digits) = 1 THEN digits[1] - 48
    ELSE 10 * Number(SubSeq(digits, 1, Len(digits) - 1)) + digits[Len(digits)] - 48
IsFeed(p) == log[p].ev = "feed"

\* C13: do_search on a feed with N entries, the id field of each ending in
\* '?id=' and digits, returns a list of exactly N integers, the i-th being
\* the digits that follow '?id=' in the i-th entry's id field, in the order
\* of the response: nothing is re-sorted, dropped or deduplicated.
C13_SearchKeepsOrder ==
    \A p \in 1..Len(log) :
        (/\ IsFeed(p)
         /\ Idle
         /\ \A i \in 1..Len(log[p].x) : log[p].x[i].has /\ WellFormed(log[p].x[i].text))
        => /\ ret.kind = "value"
           /\ Len(ret.v) = Len(log[p].x)
           /\ \A i \in 1..Len(log[p].x) :
                 ret.v[i] = Number(DigitsAfterMarker(log[p].x[i].text))
\* a feed with a repeated id and ids in descending order
C13_Witness ==
    /\ Idle
    /\ \E p \in 1..Len(log) :
          /\ IsFeed(p)
          /\ log[p].x = <<Entry(TRUE, QId \o <<49, 50>>), Entry(TRUE, <<117>> \o QId \o <<50>>)>>
    /\ ret = Value(<<12, 2>>)

\* where token starts in text
MatchAt(text, token, k) == SubSeq(text, k + 1, k + Len(token)) = token
\* the text without the characters at the positions in gone
Without(text, gone) ==
    LET kept == {i \in 1..Len(text) : i \notin gone}
        Nth(j) == CHOOSE i \in kept : Cardinality({h \in kept : h < i}) = j - 1
    IN [j \in 1..Cardinality(kept) |-> text[Nth(j)]]
\* the positions of the first occurrence of token
FirstOccurrence(text, token) ==
    IF \E k \in 0..(Len(text) - Len(token)) : MatchAt(text, token, k)
    THEN LET k == Min({h \in 0..(Len(text) - Len(token)) : MatchAt(text, token, h)})
         IN (k + 1)..(k + Len(token))
    ELSE {}
\* the positions of the occurrences of token met from left to right, an
\* occurrence that begins inside an earlier one not counted
AllOccurrences(text, token) ==
    IF token = <<>> THEN {}
    ELSE LET starts == CHOOSE S \in SUBSET (0..(Len(text) - Len(token))) :
                          \A k \in 0..(Len(text) - Len(token)) :
                              k \in S <=> /\ MatchAt(text, token, k)
                                          /\ \A j \in S : ~(j < k /\ k < j + Len(token))
         IN {i \in 1..Len(text) : \E k \in starts : i \in (k + 1)..(k + Len(token))}
HasToken(text, token) ==
    \E k \in 0..(Len(text) - Len(token)) : MatchAt(text, token, k)
\* the policy, the positions in gone being deleted for the remove token
PolicyHolds(Gone(_, _)) ==
    op.name = "_update_bug_whiteboard" =>
        LET old == op.input.whiteboard
            remove == op.input.remove
            add == op.input.add
            removed == IF remove.given THEN Without(old, Gone(old, remove.text)) ELSE old
            expected == IF add.given /\ ~HasToken(removed, add.text)
                        THEN removed \o <<32>> \o add.text
                        ELSE removed
        IN /\ ret.v.whiteboard = expected
           /\ ret.v.changes <=> (expected # old)

\* C18 (as stated): if the remove token occurs, only its first occurrence
\* is deleted; then the add token, if it does not occur in the result, is
\* appended after a single space; the flag returned is true exactly when
\* the resulting text differs from the original.
C18_RemovesFirstOccurrence == PolicyHolds(FirstOccurrence)

\* C18 (amended): if the remove token occurs, every occurrence of it met
\* from left to right is deleted; then the add token, if it does not occur
\* in the result, is appended after a single space; the flag returned is
\* true exactly when the resulting text differs from the original.
C18_RemovesEveryOccurrence == PolicyHolds(AllOccurrences)
C18_Witness ==
    /\ op.name = "_update_bug_whiteboard"
    /\ op.input = [whiteboard |-> <<97, 98, 97>>, remove |-> Token(<<97>>),
                   add |-> Token(<<97, 98>>)]
    /\ ret = Value([whiteboard |-> <<98, 32, 97, 98>>, changes |-> TRUE])

\* ------------------------------------------------------------------- C15
AnonymousRefusal == UpdateError("No updates in anonymous mode!")
\* the events of a request sent, a form selected, a field or the form changed
Touching == {"send", "form", "decide", "answer"}
\* C15: update_bug on a client with anonymous credentials fails with
\* BugzillaUpdateError, and at no moment of the call has a request been sent
\* (no transport attempt, no request or submit frame), a form been selected
\* or a field been set (update_bug never gets past load_update_form).
C15_AnonymousUpdateRefused ==
    (anonymous /\ calls = 1) =>
        /\ \A i \in 1..Len(log) : log[i].ev \notin Touching
        /\ \A i \in 1..Len(stack) :
              /\ stack[i].fn \in {"update_bug", "load_update_form"}
              /\ stack[i].fn = "load_update_form" => stack[i].pc = "start"
        /\ doc = NonHtmlPage /\ jar = {}
        /\ Idle => ret = Raised(AnonymousRefusal)
C15_Witness ==
    /\ anonymous /\ calls = 1 /\ Idle
    /\ op.name = "update_bug" /\ DOMAIN op.kwargs # {} /\ op.whiteboard_add.given
    /\ ret = Raised(AnonymousRefusal)

\* ------------------------------------------------------------------- C16
IsDecision(i) == log[i].ev = "decide"
Changed(i) == log[i].x.fields \/ log[i].x.callback \/ log[i].x.whiteboard
\* a transport attempt of submit()
IsSubmission(i) == log[i].ev = "send" /\ log[i].fn = "submit"
\* C16: update_bug never submits the form on a force_readonly client, and
\* never submits it when neither the fields, nor the callback, nor the
\* whiteboard policy reported a change; when it gets to that decision in
\* either case, it returns None at once and no error is raised.
C16_NoSubmission ==
    /\ force_readonly => \A i \in 1..Len(log) : ~IsSubmission(i)
    /\ \A i \in 1..Len(log) :
          (IsDecision(i) /\ (force_readonly \/ ~Changed(i))) =>
              /\ i = Len(log)
              /\ log[i].res = "return"
              /\ Idle /\ ret = Value("None")
              /\ \A j \in 1..Len(log) : ~IsSubmission(j)
C16_Witness ==
    /\ force_readonly /\ Idle /\ calls = 1
    /\ \E i \in 1..Len(log) : IsDecision(i) /\ Changed(i)
    /\ ret = Value("None")
\* an unchanged form is left alone by a client that may write
C16_WitnessUnchanged ==
    /\ ~force_readonly /\ Idle /\ calls = 1
    /\ \E i \in 1..Len(log) : IsDecision(i) /\ ~Changed(i)
    /\ ret = Value("None")

\* ------------------------------------------------------------------- C17
\* the call asks for nothing but to add a token the whiteboard wb holds, or
\* nothing but to remove a token it lacks
OnlyIdleWhiteboard(wb) ==
    /\ DOMAIN op.kwargs = {} /\ op.callback = "None"
    /\ \/ /\ op.whiteboard_add.given /\ ~op.whiteboard_remove.given
          /\ Occurs(op.whiteboard_add.text, wb)
       \/ /\ op.whiteboard_remove.given /\ ~op.whiteboard_add.given
          /\ ~Occurs(op.whiteboard_remove.text, wb)
\* C17: an update_bug call whose only request is whiteboard_add of a token
\* the whiteboard already holds, or whiteboard_remove of one it lacks, counts
\* as unchanged at the decision of line 662 and submits nothing.
C17_IdleWhiteboardNoSubmission ==
    \A i \in 1..Len(log) :
        (calls = 1 /\ IsDecision(i) /\ log[i - 1].ev = "form"
              /\ OnlyIdleWhiteboard(log[i - 1].x.whiteboard)) =>
            /\ ~Changed(i)
            /\ \A j \in 1..Len(log) : ~IsSubmission(j)
\* what does hold: the whiteboard policy itself reports no change
C17_PolicyReportsNoChange ==
    \A i \in 1..Len(log) :
        (calls = 1 /\ IsDecision(i) /\ log[i - 1].ev = "form"
              /\ OnlyIdleWhiteboard(log[i - 1].x.whiteboard)) =>
            ~log[i].x.whiteboard

\* ------------------------------------------------------------------- C19
MidAir == Raised(UpdateError("Mid-air collision!"))
InvalidToken == Raised(UpdateError("Suspicious Action"))
Unknown == Raised(UpdateError("Unknown error while submitting form"))
Success == Value("None")
\* C19: once the submitted form is answered, the body decides the outcome:
\* with 'Mid-air collision!' the mid-air BugzillaUpdateError; otherwise with
\* 'reason=invalid_token' the 'Suspicious Action' one; otherwise without
\* 'Changes submitted for' the 'Unknown error' one; otherwise the call
\* returns.  The four outcomes differ, so each answer has exactly one.
C19_SubmissionOutcome ==
    /\ Cardinality({MidAir, InvalidToken, Unknown, Success}) = 4
    /\ \A i \in 1..Len(log) :
          log[i].ev = "answer" =>
            LET data == log[i].x IN
            /\ Idle
            /\ ret = IF "Mid-air collision!" \in data THEN MidAir
                     ELSE IF "reason=invalid_token" \in data THEN InvalidToken
                     ELSE IF "Changes submitted for" \notin data THEN Unknown
                     ELSE Success
C19_Witness ==
    /\ Idle /\ ret = MidAir
    /\ \E i \in 1..Len(log) : log[i].ev = "answer" /\ log[i].x = SubmitMarkers

\* ------------------------------------------------------------------- C20
IsLoginEntry(i) == log[i].ev = "enter" /\ IsLogin(log[i].fn)
IsRequest(i) == log[i].ev = "send" /\ log[i].fn = "request"
\* no check_login has answered during the call so far: session is what it
\* was when the call began
Unprobed == \A i \in 1..Len(log) : log[i].ev # "probe"
IsOtherError(bug_et) == bug_et.error \notin {"None"} \cup DOMAIN TypedErrors
\* C22: an error attribute other than NotPermitted, NotFound and
\* InvalidBugId makes Bug raise the generic BugzillaError (none of the three
\* subtypes), and that error carries the text of the bug_id child as bug id,
\* null only when there is no such child.
C22_GenericErrorCarriesBugId ==
    (op.name = "Bug" /\ IsOtherError(op.input.bug_et)) =>
        /\ ret.kind = "raise"
        /\ ret.exc.cls = "BugzillaError"
        /\ ret.exc.bug_id = IdOf(op.input.bug_et)
\* what does hold: the error is the generic one, with the attribute's value
\* as message
C22_GenericErrorKind ==
    (op.name = "Bug" /\ IsOtherError(op.input.bug_et)) =>
        /\ ret.kind = "raise"
        /\ ret.exc.cls = "BugzillaError"
        /\ ret.exc.msg = op.input.bug_et.error

\* ------------------------------------------------------------- C21, C23
\* the children with that tag, in document order; their texts
Children(kids, tag) == SelectSeq(kids, LAMBDA k : k.tag = tag)
Texts(kids, tag) == [i \in 1..Len(Children(kids, tag)) |-> Children(kids, tag)[i].text]
\* the children with that tag that have children of their own
Nested(kids, tag) == SelectSeq(kids, LAMBDA k : k.tag = tag /\ k.kids # <<>>)
\* the entry a <flag> child gives: its non-empty attributes among the six
FlagOf(el) ==
    {p \in el.attrs : p[1] \in {"name", "id", "type_id", "status", "setter", "requestee"}
                        /\ p[2] # ""}
\* the attribute is the list the constructor made, and holds these entries
ListIs(rec, name, entries) == ~Holds(rec, name) /\ rec[name] = entries
\* a record was built from the element
Built21 == op.name = "Bug" /\ op.input.bug_et.error = "None" /\ ret.kind = "ok"
\* no leaf child bears the name of an attribute the constructor sets
Plain(kids) ==
    \A i \in 1..Len(kids) :
        kids[i].kids = <<>> =>
            kids[i].tag \notin {"cc_list", "groups", "comments", "attachments",
                                "aliases", "anonymous", "flags"}

\* C21 (the record): bug_id is the text of a bug_id child of the element;
\* flags holds one entry per <flag> child in document order, and cc_list,
\* aliases and groups one entry per cc, alias and group child.
C21_OneEntryPerChild ==
    Built21 =>
        LET kids == op.input.bug_et.children
            rec == ret.v
        IN /\ HasChild(kids, "bug_id") =>
                 \E i \in 1..Len(kids) : kids[i].tag = "bug_id" /\ rec.bug_id = kids[i].text
           /\ ListIs(rec, "flags",
                     [i \in 1..Len(Children(kids, "flag")) |-> FlagOf(Children(kids, "flag")[i])])
           /\ ListIs(rec, "cc_list", Texts(kids, "cc"))
           /\ ListIs(rec, "aliases", Texts(kids, "alias"))
           /\ ListIs(rec, "groups", Texts(kids, "group"))
\* what does hold: the same, for elements none of whose leaf children is
\* named like an attribute of the record
C21_OneEntryPerChildPlain ==
    (Built21 /\ Plain(op.input.bug_et.children)) => C21_OneEntryPerChild

\* C23: whatever the tags of the leaf children, the record built has its
\* six lists, each holding the entries of its own children in order, and
\* its anonymous flag is the constructor's argument.
C23_LeavesKeepStructure ==
    Built21 =>
        LET kids == op.input.bug_et.children
            rec == ret.v
        IN /\ ListIs(rec, "cc_list", Texts(kids, "cc"))
           /\ ListIs(rec, "groups", Texts(kids, "group"))
           /\ ListIs(rec, "aliases", Texts(kids, "alias"))
           /\ ListIs(rec, "flags",
                     [i \in 1..Len(Children(kids, "flag")) |-> FlagOf(Children(kids, "flag")[i])])
           /\ ~Holds(rec, "comments")
           /\ Len(rec.comments) = Len(Nested(kids, "long_desc"))
           /\ ~Holds(rec, "attachments")
           /\ Len(rec.attachments) = Len(Nested(kids, "attachment"))
           /\ ~Holds(rec, "anonymous") /\ rec.anonymous = op.input.anonymous
\* what does hold: the same, for elements none of whose leaf children is
\* named like an attribute of the record
C23_PlainLeavesKeepStructure ==
    (Built21 /\ Plain(op.input.bug_et.children)) => C23_LeavesKeepStructure

\* ------------------------------------------------------------------- C24
\* a comment element lacking its author or its time, otherwise complete
LacksWho(k) == ~HasChild(k.kids, "who")
LacksWhen(k) == ~HasChild(k.kids, "bug_when")
Deficient(k) ==
    /\ k.tag = "long_desc" /\ k.kids # <<>>
    /\ LacksWho(k) \/ LacksWhen(k)
    /\ HasChild(k.kids, "thetext")
    /\ ~LacksWhen(k) => FindChild(k.kids, "bug_when").text \in ValidDates
\* the element's last child is such a comment, and the children before it
\* were processed without error: the record as comment handling finds it
Before24 ==
    LET kids == op.input.bug_et.children
    IN Bug(BugElem("None", SubSeq(kids, 1, Len(kids) - 1)), op.input.anonymous)
CommentCase ==
    /\ op.name = "Bug" /\ op.input.bug_et.error = "None" /\ ret.kind # "none"
    /\ op.input.bug_et.children # <<>>
    /\ Deficient(op.input.bug_et.children[Len(op.input.bug_et.children)])
    /\ Before24.kind = "ok"
LastKid24 == op.input.bug_et.children[Len(op.input.bug_et.children)]

\* C24: comment handling on a long_desc lacking who or bug_when.  A parse
\* constructed non-anonymous fails with BugzillaNotPermitted carrying the
\* record's bug id and appends nothing; a parse constructed anonymous
\* appends one comment, with who = '' for a missing author and a null
\* bug_when for a missing time.
C24_CommentHandling ==
    CommentCase =>
        IF ~op.input.anonymous
        THEN /\ ret.kind = "raise"
             /\ ret.exc.cls = "BugzillaNotPermitted"
             /\ ret.exc.bug_id = Before24.v.bug_id
        ELSE /\ ret.kind = "ok"
             /\ ~Holds(ret.v, "comments")
             /\ Len(ret.v.comments) = Len(Before24.v.comments) + 1
             /\ LET c == ret.v.comments[Len(ret.v.comments)]
                IN /\ LacksWho(LastKid24) => c.who = ""
                   /\ LacksWhen(LastKid24) => c.bug_when = <<"None">>
                   /\ SubSeq(ret.v.comments, 1, Len(ret.v.comments) - 1)
                         = Before24.v.comments
\* what does hold: the same, when no leaf child is named like an attribute
\* of the record
C24_PlainCommentHandling ==
    (CommentCase /\ Plain(op.input.bug_et.children)) => C24_CommentHandling
\* both halves happen: a refusal carrying a bug id, and an appended comment
C24_RefusedWithId ==
    /\ CommentCase /\ Plain(op.input.bug_et.children)
    /\ ~op.input.anonymous /\ ret.kind = "raise" /\ ret.exc.bug_id = "7"
C24_AppendedAnonymous ==
    /\ CommentCase /\ Plain(op.input.bug_et.children)
    /\ op.input.anonymous /\ ret.kind = "ok" /\ Len(ret.v.comments) = 2
\* in get_bugs the refusal made by comment handling is answered like the
\* server's (C4_NotPermittedRetry speaks of both): here it led to a login
C24_CommentRefusalRetried ==
    \E p \in 1..Len(log) :
        /\ NotPermittedAt(p)
        /\ log[p].x.exc.msg = "Could not load author from bugzilla"
        /\ log[p].res = "retry"

\* ------------------------------------------------------------------- C25
\* the decision at index i follows the loading of a form that has the
\* addselfcc toggle
DecidedWithToggle(i) ==
    /\ IsDecision(i) /\ log[i - 1].ev = "form"
    /\ "addselfcc" \in log[i - 1].x.fields
WhiteboardAsked == op.whiteboard_add.given \/ op.whiteboard_remove.given
SelfCcGiven == "addselfcc" \in DOMAIN op.kwargs
\* C25: when update_bug gets past the setting of the fields on a form that
\* has the addselfcc toggle: with a whiteboard argument and no addselfcc
\* from the caller the toggle has been set to the empty selection; an
\* addselfcc from the caller has been set as given; with neither, the
\* toggle has not been set.  On a form without the toggle it is never set,
\* and every submission comes after that point.
C25_AddSelfCcDefault ==
    /\ \A i \in 1..Len(log) : DecidedWithToggle(i) =>
          LET inputs == log[i].x.inputs IN
          /\ (WhiteboardAsked /\ ~SelfCcGiven) =>
                "addselfcc" \in DOMAIN inputs /\ inputs["addselfcc"] = <<>>
          /\ SelfCcGiven =>
                "addselfcc" \in DOMAIN inputs
                /\ inputs["addselfcc"] = op.kwargs["addselfcc"]
          /\ (~WhiteboardAsked /\ ~SelfCcGiven) => "addselfcc" \notin DOMAIN inputs
    /\ \A i \in 1..Len(log) :
          (IsDecision(i) /\ ~DecidedWithToggle(i)) =>
              "addselfcc" \notin DOMAIN log[i].x.inputs
    /\ \A j \in 1..Len(log) : IsSubmission(j) => \E i \in 1..(j - 1) : IsDecision(i)
\* a whiteboard change without addselfcc was submitted with the toggle off
C25_Witness ==
    /\ Idle /\ op.name = "update_bug" /\ WhiteboardAsked /\ ~SelfCcGiven
    /\ ret = Value("None")
    /\ \E i \in 1..Len(log) :
          /\ DecidedWithToggle(i) /\ log[i].res = "submit"
          /\ log[i].x.inputs["addselfcc"] = <<>>
\* the caller's selection went into a form submitted for a whiteboard change
C25_WitnessGiven ==
    /\ Idle /\ op.name = "update_bug" /\ WhiteboardAsked /\ SelfCcGiven
    /\ \E i \in 1..Len(log) :
          /\ DecidedWithToggle(i) /\ log[i].res = "submit"
          /\ log[i].x.inputs["addselfcc"] = <<"on">>

\* ------------------------------------------------------------------- C26
\* update_bug has loaded the form at index i and gone on from there
FormHandled(i) ==
    /\ log[i].ev = "form"
    /\ ~(At("update_bug", "loaded") /\ Returned /\ i = Len(log))
\* the fields update_bug sets that the form loaded at index i lacks
Missing(i) ==
    DOMAIN WithSelfCc(op.kwargs, op.whiteboard_add, op.whiteboard_remove)
        \ log[i].x.fields
\* C26: when a field to set is missing in the form and its name is not one
\* of commentprivacy, comment_is_private, addselfcc, groups, update_bug
\* fails there with the DataNotFound of set_input: no decision is reached
\* and nothing is submitted.  When only fields of that list are missing,
\* update_bug goes on to the callback, the whiteboard and the decision.
C26_MissingFields ==
    \A i \in 1..Len(log) : FormHandled(i) =>
        IF Missing(i) \subseteq {"commentprivacy", "comment_is_private", "addselfcc", "groups"}
        THEN \/ i < Len(log) /\ IsDecision(i + 1)
             \/ /\ Idle /\ ret.kind = "raise" /\ ret.exc.cls = "KeyError"
                /\ WhiteboardAsked /\ "status_whiteboard" \notin log[i].x.fields
        ELSE /\ Idle
             /\ ret.kind = "raise" /\ ret.exc.cls = "DataNotFound"
             /\ \A j \in 1..Len(log) : ~IsDecision(j) /\ ~IsSubmission(j)
\* the form lacked addselfcc alone and was submitted all the same
C26_Witness ==
    /\ Idle /\ op.name = "update_bug" /\ ret = Value("None")
    /\ \E i \in 1..Len(log) :
          /\ FormHandled(i) /\ Missing(i) = {"addselfcc"}
          /\ IsDecision(i + 1) /\ log[i + 1].res = "submit"
          /\ \E j \in 1..Len(log) : IsSubmission(j)
\* the form lacked another field and the call ended there
C26_WitnessFatal ==
    /\ Idle /\ op.name = "update_bug"
    /\ ret.kind = "raise" /\ ret.exc.cls = "DataNotFound"
    /\ \E i \in 1..Len(log) : FormHandled(i) /\ "resolution" \in Missing(i)

\* ------------------------------------------------------------------- C28
\* a first attempt that failed, and not with a 502 under installed cookies
IsUnarmedFailure(e) == IsSend(e, "try") /\ e.res = "error" /\ ~Is502Armed(e)
\* C28: a first attempt of request()/submit() that fails with an error
\* other than 502, or with 502 while cookie_set is false, ends the call
\* with that error.  Nothing is sent after it, no cookies are cleared, no
\* login is entered, and the cookie jar and cookie_set stay what they were
\* when the attempt was made.
C28_UnarmedErrorPropagates ==
    \A i \in 1..Len(log) : IsUnarmedFailure(log[i]) =>
        /\ \A j \in (i + 1)..Len(log) : log[j].ev = "exit" /\ log[j].res = "raise"
        /\ jar = log[i].x.jar
        /\ cookie_set = log[i].x.cookie_set
        /\ Idle => ret = Raised(TransportErr(log[i].x.code))
        /\ ~Idle =>
              /\ i = Len(log)
              /\ stack[log[i].d].fn = log[i].fn
              /\ stack[log[i].d].pc = "except"
              /\ \/ Depth = log[i].d + 1 /\ At("possible_relogin", "check")
                 \/ Depth = log[i].d /\ ret = Value(FALSE)
\* a 502 met without installed cookies reached the caller
C28_Witness ==
    /\ Idle
    /\ ret = Raised(TransportErr(502))
    /\ \E i \in 1..Len(log) :
          /\ IsUnarmedFailure(log[i]) /\ log[i].x.code = 502
          /\ ~log[i].x.cookie_set
          /\ Cardinality({m \in 1..Len(log) : log[m].ev = "send"}) = 1
\* another error met with installed cookies reached the caller, cookies kept
C28_WitnessOtherCode ==
    /\ Idle
    /\ cookie_set /\ jar # {}
    /\ \E i \in 1..Len(log) :
          /\ IsUnarmedFailure(log[i]) /\ log[i].x.code # 502 /\ log[i].x.cookie_set

\* ------------------------------------------------------------------- C27
\* possible_relogin cleared the cookies at index i
IsClear(i) == log[i].ev = "clear"
IsInstall(i) == log[i].ev = "set_cookies"
\* a step that installs cookies: the caller's set_cookies, or the
\* set_cookies call of DjangoBugzilla.login
InstallStep ==
    \/ op'.name = "set_cookies" /\ calls' = calls + 1
    \/ \E k \in 1..Len(log') : k > Len(log) /\ log'[k].ev = "set_cookies"
\* C27: cookie_set becomes true only in a step that installs cookies with
\* set_cookies; no login, full or forced, sets it.  The forced re-login of
\* a recovery installs none, so from the clearing of the cookies until the
\* next set_cookies cookie_set is false, and a first attempt that fails
\* with 502 in that time is not answered by a re-login: its error ends
\* the call.
C27_ArmedOnlyBySetCookies ==
    /\ [][(~cookie_set /\ cookie_set') => InstallStep]_vars
    /\ [](\A i \in 1..Len(log) : IsClear(i) =>
            /\ \A k \in (i + 1)..Len(log) : Within(i - 1, k) => ~IsInstall(k)
            /\ (\A k \in (i + 1)..Len(log) : ~IsInstall(k)) => ~cookie_set
            /\ \A j \in (i + 1)..Len(log) :
                  (/\ IsSend(log[j], "try") /\ log[j].res = "error"
                   /\ \A k \in (i + 1)..(j - 1) : ~IsInstall(k)) =>
                      /\ ~log[j].x.cookie_set
                      /\ \A m \in (j + 1)..Len(log) :
                            log[m].ev = "exit" /\ log[m].res = "raise")
\* after a recovery that succeeded, a later request of the same call met a
\* 502, which reached the caller
C27_Witness ==
    /\ Idle
    /\ ret = Raised(TransportErr(502))
    /\ \E i \in 1..Len(log), r \in 1..Len(log), j \in 1..Len(log) :
          /\ IsClear(i) /\ i < r /\ r < j
          /\ IsSend(log[r], "retry") /\ log[r].res = "ok"
          /\ IsSend(log[j], "try") /\ log[j].res = "error" /\ log[j].x.code = 502
          /\ log[j].d <= log[r].d

\* ------------------------------------------------------------------- C29
\* the re-login of the recovery that cleared the cookies at index i was
\* entered at index i + 1 and left by an error
ReloginFailed(i) ==
    /\ IsClear(i) /\ i < Len(log)
    /\ log[i + 1].ev = "enter" /\ IsLogin(log[i + 1].fn)
    /\ ExitOf(i + 1) # 0 /\ log[ExitOf(i + 1)].res = "raise"
\* the transport attempts made after index i
SendsAfter(i) == {j \in (i + 1)..Len(log) : log[j].ev = "send"}
\* C29: when the forced re-login of a 502 recovery fails, the call ends
\* with the error of that login: BugzillaLoginFailed, or the transport error
\* of the login's last request.  The request that met the 502 is not sent
\* again, nothing is sent after the login's failure, cookie_set is false,
\* none of the cookies installed before is back in the jar (the jar is
\* empty unless a page of the failed login set a cookie), and the cache
\* entry of a DjangoBugzilla client is the one it was when the re-login
\* began.
C29_FailedReloginPropagates ==
    \A i \in 1..Len(log) : ReloginFailed(i) =>
        /\ Idle /\ ret.kind = "raise"
        /\ \/ ret.exc.cls = "BugzillaLoginFailed"
              /\ \A j \in SendsAfter(i) : log[j].res = "ok"
           \/ \E j \in SendsAfter(i) :
                 /\ log[j].res = "error"
                 /\ ret = Raised(TransportErr(log[j].x.code))
                 /\ \A k \in SendsAfter(i) : k <= j
        /\ \A j \in SendsAfter(i) : log[j].d > log[i - 1].d /\ ~IsSend(log[j], "retry")
        /\ ~cookie_set
        /\ "old" \notin jar
        /\ (\A j \in SendsAfter(i) : log[j].res = "error") => jar = {}
        /\ \A k \in (i + 1)..Len(log) : log[k].ev \notin {"cache_set", "set_cookies"}
        /\ cls = "DjangoBugzilla" => cache = log[i + 1].x.cache
\* the re-login of a DjangoBugzilla client with cached cookies was refused
C29_Witness ==
    /\ Idle /\ cls = "DjangoBugzilla" /\ cache.present
    /\ ret.kind = "raise" /\ ret.exc.cls = "BugzillaLoginFailed"
    /\ \E i \in 1..Len(log) : ReloginFailed(i) /\ log[i - 1].x.code = 502
\* the re-login met a transport error other than the 502 that began it
C29_WitnessTransport ==
    /\ Idle
    /\ ret = Raised(TransportErr(500))
    /\ \E i \in 1..Len(log) : ReloginFailed(i) /\ "old" \in log[i - 1].x.jar

\* ------------------------------------------------------------------- C30
\* the parse at index p is that of a second get_bugs, made by the retry of
\* a first one
IsRetryParse(p) ==
    /\ IsParsed(log[p])
    /\ \E q \in 1..(p - 1) :
          IsParsed(log[q]) /\ log[q].res = "retry" /\ log[p].d = log[q].d + 1
\* what a parse loop gives its caller: the error that left it, or its list
Outcome(r) ==
    IF r.raised THEN [raised |-> TRUE, exc |-> r.exc, bugs |-> <<>>]
    ELSE [raised |-> FALSE, exc |-> r.exc, bugs |-> r.bugs]
\* the loop of line 461 over the elements parsed at index p, had the retry
\* been given the caller's store_errors
Forwarded(p) ==
    BugsLoop(log[p].x.elems, anonymous, ArgsOf(p).permissive, op.store_errors,
             <<>>, <<>>)
\* C30: the second get_bugs is called with retry off, the caller's
\* permissive, which is false, and no store_errors; over the elements it
\* parses, the loop gives the same list or the same error as it would with
\* the caller's store_errors, so the first call ends alike in both cases.
C30_StoreErrorsNotForwarded ==
    \A p \in 1..Len(log) : IsRetryParse(p) =>
        /\ ~ArgsOf(p).store_errors /\ ~ArgsOf(p).retry
        /\ ~ArgsOf(p).permissive
        /\ Outcome(Forwarded(p)) = Outcome(log[p].x)
        /\ log[p].res = IF log[p].x.raised THEN "raise" ELSE "return"
\* a call with store_errors was retried, and the second response held a bug
\* that failed: the forwarding loop would have stored the error it raised
C30_Witness ==
    /\ Idle /\ op.name = "get_bugs" /\ op.store_errors
    /\ ret.kind = "raise"
    /\ \E p \in 1..Len(log) :
          /\ IsRetryParse(p) /\ log[p].x.raised
          /\ Forwarded(p).bugs # log[p].x.bugs
\* a call with store_errors was retried and returned the second list
C30_WitnessReturned ==
    /\ Idle /\ op.name = "get_bugs" /\ op.store_errors
    /\ \E p \in 1..Len(log) :
          /\ IsRetryParse(p) /\ ~log[p].x.raised /\ log[p].x.bugs # <<>>
          /\ ret = Value(log[p].x.bugs)

====
